---- MODULE Spec2Model ----
(***************************************************************************)
(* A model of the bytecode interpreter of CamelSmokes/Instruction-         *)
(* Interpreter: values and types (src/src/value.rs), the operations        *)
(* (src/src/operations.rs) and the execution engine                        *)
(* (src/src/interpreter.rs, Interpreter::execute).                         *)
(*                                                                         *)
(* Encoding.  A VariableType is a tuple of strings: <<"U8">>, <<"Bool">>,  *)
(* <<"Array", "U8">> (Array(Box<U8>)).  A Value is a record [t, v]: t its  *)
(* type and v its payload: a BOOLEAN for Bool, the little-endian tuple of  *)
(* limbs for an unsigned integer (one limb below 2^8 for U8, one, two or   *)
(* four limbs below 2^16 for U16, U32, U64), a tuple of Values for an      *)
(* array.  An Option is a tuple: <<>> is None and <<x>> is Some(x).        *)
(* A Rust panic (unwrap on None, todo!(), assert!) ends the run with       *)
(* result <<"Panic", what>>; a returned Err(e) with <<"Err", e...>>.       *)
(***************************************************************************)
EXTENDS Integers, Sequences, FiniteSets, TLC

VARIABLES
    program,               \* Interpreter.program: the functions, read-only
    callstack,             \* Interpreter.callstack: Vec<ExecutionContext>
    context,               \* the popped `context` of execute's outer loop (an Option)
    return_value_storage,  \* Interpreter.return_value_storage (an Option)
    result,                \* what execute has returned: <<>> while it runs
    output,                \* the values println! has written, in order
    last_event,            \* history: the last loop event (what, where, value)
    steps,                 \* history: the number of loop events so far
    typed_array,           \* an ArrayValue of value.rs (an Option: none while execute runs)
    typed_array_result     \* history: the last operation on typed_array and its Result

vars == <<program, callstack, context, return_value_storage, result, output,
          last_event, steps, typed_array,
          typed_array_result>>

-----------------------------------------------------------------------------
(* Types and values                                                        *)

U8 == <<"U8">>
U16 == <<"U16">>
U32 == <<"U32">>
U64 == <<"U64">>
Bool == <<"Bool">>
String == <<"String">>
ArrayOf(elem) == <<"Array">> \o elem

NumericTypes == {U8, U16, U32, U64}

\* number of 16-bit limbs of an unsigned type (U8 is one limb below 2^8)
Limbs(t) == CASE t = U8 -> 1 [] t = U16 -> 1 [] t = U32 -> 2 [] t = U64 -> 4

\* the modulus of one limb of type t
LimbBase(t) == IF t = U8 THEN 256 ELSE 65536

\* the limbs of the natural number n (n < 2^31) in type t, wrapped to t's width
RECURSIVE ToLimbs(_, _, _)
ToLimbs(n, k, base) ==
    IF k = 0 THEN <<>> ELSE <<n % base>> \o ToLimbs(n \div base, k - 1, base)

Num(t, n) == [t |-> t, v |-> ToLimbs(n, Limbs(t), LimbBase(t))]
BoolV(b) == [t |-> Bool, v |-> b]
ArrayV(elem, values) == [t |-> ArrayOf(elem), v |-> values]
StringV(s) == [t |-> String, v |-> s]

get_type(value) == value.t

is_number(value) == value.t \in NumericTypes

is_array(value) == Len(value.t) > 1 /\ Head(value.t) = "Array"

array_type(value) == Tail(value.t)

\* Value::get_bool: Some(b) for a Bool, None otherwise
get_bool(value) == IF value.t = Bool THEN <<value.v>> ELSE <<>>

\* Value::to_usize on an unsigned integer: the low limb when the high limbs
\* are zero, otherwise an index beyond every array the model holds
to_usize(value) ==
    IF \A i \in 2..Len(value.v) : value.v[i] = 0
    THEN value.v[1]
    ELSE value.v[1] + 65536

\* default_value with one as the default of the unsigned types
default_value_one(t) ==
    CASE t \in NumericTypes -> Num(t, 1)
      [] t = Bool -> BoolV(FALSE)
      [] t = String -> StringV("")
      [] OTHER -> ArrayV(Tail(t), <<>>)

\* ExecutionContext::new's default value of a declared type
default_value(t) ==
    CASE t \in NumericTypes -> Num(t, 0)
      [] t = Bool -> BoolV(FALSE)
      [] t = String -> StringV("")
      [] OTHER -> ArrayV(Tail(t), <<>>)

-----------------------------------------------------------------------------
(* Operations (operations.rs): a result is <<"Ok", value>> or <<"Err", e>>  *)

RECURSIVE AddLimbs(_, _, _, _)
AddLimbs(a, b, carry, base) ==
    IF a = <<>> THEN <<>>
    ELSE LET s == Head(a) + Head(b) + carry
         IN  <<s % base>> \o AddLimbs(Tail(a), Tail(b), s \div base, base)

RECURSIVE SubLimbs(_, _, _, _)
SubLimbs(a, b, borrow, base) ==
    IF a = <<>> THEN <<>>
    ELSE LET d == Head(a) - Head(b) - borrow
         IN  <<d % base>> \o SubLimbs(Tail(a), Tail(b), IF d < 0 THEN 1 ELSE 0, base)

\* a < b on little-endian limbs of equal length
RECURSIVE LessLimbs(_, _)
LessLimbs(a, b) ==
    IF a = <<>> THEN FALSE
    ELSE LET n == Len(a)
         IN  IF a[n] # b[n] THEN a[n] < b[n]
             ELSE LessLimbs(SubSeq(a, 1, n - 1), SubSeq(b, 1, n - 1))

IsZeroLimbs(a) == \A i \in 1..Len(a) : a[i] = 0

\* a % b (b non-zero) for a below b * base: a % 2b reduced once more by b;
\* 2b wraps exactly when it is below b
RECURSIVE RemDoubling(_, _, _)
RemDoubling(a, b, base) ==
    IF LessLimbs(a, b) THEN a
    ELSE LET twice == AddLimbs(b, b, 0, base)
             r == IF LessLimbs(twice, b) \/ LessLimbs(a, twice) THEN a
                  ELSE RemDoubling(a, twice, base)
         IN  IF LessLimbs(r, b) THEN r ELSE SubLimbs(r, b, 0, base)

\* a % b (b non-zero): a is first reduced modulo b * base, when that value
\* fits the width and is not above a
RECURSIVE RemLimbs(_, _, _)
RemLimbs(a, b, base) ==
    IF LessLimbs(a, b) THEN a
    ELSE LET shifted == <<0>> \o SubSeq(b, 1, Len(b) - 1)
         IN  IF b[Len(b)] # 0 \/ LessLimbs(a, shifted)
             THEN RemDoubling(a, b, base)
             ELSE RemDoubling(RemLimbs(a, shifted, base), b, base)

\* op_less_than answering lvalue <= rvalue
op_less_than_or_equal(left, right) ==
    IF ~(is_number(left) /\ is_number(right)) THEN <<"Err", "OperandNotNumeric">>
    ELSE IF left.t = right.t THEN <<"Ok", BoolV(~LessLimbs(right.v, left.v))>>
    ELSE <<"Err", "OperandsNotSameType">>

\* the limbs added one by one with no carry from limb to limb
limbwise_add(l, r) ==
    [t |-> l.t, v |-> [i \in 1..Len(l.v) |-> (l.v[i] + r.v[i]) % LimbBase(l.t)]]

wrapping_add(l, r) == [t |-> l.t, v |-> AddLimbs(l.v, r.v, 0, LimbBase(l.t))]

wrapping_sub(l, r) == [t |-> l.t, v |-> SubLimbs(l.v, r.v, 0, LimbBase(l.t))]

internal_rem(l, r) ==
    IF IsZeroLimbs(r.v) THEN <<"Err", "OperatorDivideByZero">>
    ELSE <<"Ok", [t |-> l.t, v |-> RemLimbs(l.v, r.v, LimbBase(l.t))]>>

op_add(left, right) ==
    IF ~(is_number(left) /\ is_number(right)) THEN <<"Err", "OperandNotNumeric">>
    ELSE IF left.t = right.t THEN <<"Ok", wrapping_add(left, right)>>
    ELSE <<"Err", "OperandsNotSameType">>

op_sub(left, right) ==
    IF ~(is_number(left) /\ is_number(right)) THEN <<"Err", "OperandNotNumeric">>
    ELSE IF left.t = right.t THEN <<"Ok", wrapping_sub(left, right)>>
    ELSE <<"Err", "OperandsNotSameType">>

op_rem(left, right) ==
    IF ~(is_number(left) /\ is_number(right)) THEN <<"Err", "OperandNotNumeric">>
    ELSE IF left.t = right.t THEN internal_rem(left, right)
    ELSE <<"Err", "OperandsNotSameType">>

op_less_than(left, right) ==
    IF ~(is_number(left) /\ is_number(right)) THEN <<"Err", "OperandNotNumeric">>
    ELSE IF left.t = right.t THEN <<"Ok", BoolV(LessLimbs(left.v, right.v))>>
    ELSE <<"Err", "OperandsNotSameType">>

op_equals(left, right) ==
    CASE left.t = right.t /\ (is_number(left) \/ left.t = Bool) ->
            <<"Ok", BoolV(left.v = right.v)>>
      [] (left.t = String /\ right.t = String) \/ (is_array(left) /\ is_array(right)) ->
            <<"Panic", "unimplemented">>
      [] OTHER -> <<"Err", "OperandsNotSameType">>

op_not_equals(left, right) ==
    CASE left.t = right.t /\ (is_number(left) \/ left.t = Bool) ->
            <<"Ok", BoolV(left.v # right.v)>>
      [] OTHER -> <<"Panic", "unimplemented">>

-----------------------------------------------------------------------------
(* ArrayValue (value.rs): a record [variant, inner, items].  The items of a  *)
(* BoolArray ... StringArray are the payloads of its elements, those of an   *)
(* ArrayArray(inner, items) are ArrayValues; `inner` is <<>> for the other   *)
(* variants.  Value::Array(a) is the Value [t |-> the type of a, v |-> a].   *)

ScalarTypes == {U8, U16, U32, U64, Bool, String}

\* the variant whose elements are of the scalar type t
VariantOf(t) == Head(t) \o "Array"

ArrayValue_new(element_type) ==
    IF element_type \in ScalarTypes
    THEN [variant |-> VariantOf(element_type), inner |-> <<>>, items |-> <<>>]
    ELSE [variant |-> "ArrayArray", inner |-> Tail(element_type), items |-> <<>>]

get_inner_type(self) ==
    IF self.variant = "ArrayArray" THEN ArrayOf(self.inner)
    ELSE CHOOSE t \in ScalarTypes : VariantOf(t) = self.variant

ArrayValue_get_type(self) == ArrayOf(get_inner_type(self))

\* Value::Array(a)
ValueArray(a) == [t |-> ArrayValue_get_type(a), v |-> a]

\* the arms of set_index and push: a scalar array and a value of its variant
SameVariant(self, value) ==
    value.t \in ScalarTypes /\ self.variant = VariantOf(value.t)

set_index(self, index, value) ==
    IF SameVariant(self, value)
    THEN IF index < Len(self.items)
         THEN <<"Ok", [self EXCEPT !.items[index + 1] = value.v]>>
         ELSE <<"Err", "ArrayIndexBeyondBounds", index>>
    ELSE <<"Err", "ArraySetValueWithIncompatibleType",
           ArrayValue_get_type(self), get_type(value)>>

\* push accepting every value
push_unchecked(self, value) ==
    <<"Ok", [self EXCEPT !.items = Append(self.items, value.v)]>>

push(self, value) ==
    IF SameVariant(self, value)
    THEN <<"Ok", [self EXCEPT !.items = Append(self.items, value.v)]>>
    ELSE <<"Err", "ArrayTypeIncompatibleWithPushValue",
           ArrayValue_get_type(self), get_type(value)>>

get_index(self, index) ==
    IF index >= Len(self.items) THEN <<"Err", "ArrayIndexBeyondBounds", index>>
    ELSE IF self.variant = "ArrayArray"
    THEN <<"Ok", ValueArray(self.items[index + 1])>>
    ELSE <<"Ok", [t |-> get_inner_type(self), v |-> self.items[index + 1]]>>

len(self) == Len(self.items)

-----------------------------------------------------------------------------
(* Instructions (instructions.rs): one record shape for every opcode; the   *)
(* fields an opcode does not use hold 0 and NoValue.                        *)

NoValue == [t |-> <<"None">>, v |-> <<>>]

Ins(op, a, b, c, imm) == [op |-> op, a |-> a, b |-> b, c |-> c, imm |-> imm]

Set(to_var_id, from_var_id) == Ins("Set", to_var_id, from_var_id, 0, NoValue)
SetI(var_id, value) == Ins("SetI", var_id, 0, 0, value)
SetArrayIndex(array_var_id, array_index, new_value_id) ==
    Ins("SetArrayIndex", array_var_id, array_index, new_value_id, NoValue)
SetArrayIndexI(array_var_id, array_index, value) ==
    Ins("SetArrayIndexI", array_var_id, array_index, 0, value)
GetArrayIndex(array_var_id, store_var_id, index_var_id) ==
    Ins("GetArrayIndex", array_var_id, store_var_id, index_var_id, NoValue)
Add(lvalue_id, rvalue_id) == Ins("Add", lvalue_id, rvalue_id, 0, NoValue)
Sub(lvalue_id, rvalue_id) == Ins("Sub", lvalue_id, rvalue_id, 0, NoValue)
Rem(lvalue_id, rvalue_id) == Ins("Rem", lvalue_id, rvalue_id, 0, NoValue)
AddI(lvalue_id, rvalue) == Ins("AddI", lvalue_id, 0, 0, rvalue)
SubI(lvalue_id, rvalue) == Ins("SubI", lvalue_id, 0, 0, rvalue)
LessThan(bool_var_id, lvalue_id, rvalue_id) ==
    Ins("LessThan", bool_var_id, lvalue_id, rvalue_id, NoValue)
LessThanI(bool_var_id, lvalue_id, rvalue) ==
    Ins("LessThanI", bool_var_id, lvalue_id, 0, rvalue)
Equals(bool_var_id, lvalue_id, rvalue_id) ==
    Ins("Equals", bool_var_id, lvalue_id, rvalue_id, NoValue)
EqualsI(bool_var_id, lvalue_id, rvalue) ==
    Ins("EqualsI", bool_var_id, lvalue_id, 0, rvalue)
NotEquals(bool_var_id, lvalue_id, rvalue_id) ==
    Ins("NotEquals", bool_var_id, lvalue_id, rvalue_id, NoValue)
NotEqualsI(bool_var_id, lvalue_id, rvalue) ==
    Ins("NotEqualsI", bool_var_id, lvalue_id, 0, rvalue)
Goto(instruction_number) == Ins("Goto", instruction_number, 0, 0, NoValue)
GotoIfTrue(instruction_number, bool_var_id) ==
    Ins("GotoIfTrue", instruction_number, bool_var_id, 0, NoValue)
PushFunctionParameterStack(var_id) ==
    Ins("PushFunctionParameterStack", var_id, 0, 0, NoValue)
CallVoidFunction(function_id) == Ins("CallVoidFunction", function_id, 0, 0, NoValue)
CallFunction(function_id, return_value_destination_id) ==
    Ins("CallFunction", function_id, return_value_destination_id, 0, NoValue)
CallVoidNativeFunction(native_function_id) ==
    Ins("CallVoidNativeFunction", native_function_id, 0, 0, NoValue)
CallNativeVoidMethod(var_id, method_id) ==
    Ins("CallNativeVoidMethod", var_id, method_id, 0, NoValue)
CallNativeMethod(var_id, value_return_store, method_id) ==
    Ins("CallNativeMethod", var_id, value_return_store, method_id, NoValue)
Return(var_id_to_return) == Ins("Return", var_id_to_return, 0, 0, NoValue)

\* the opcodes whose arm of execute is todo!()
TodoOps ==
    {"SetArrayIIndex", "GetArrayIndexI", "Mul", "Div", "MulI", "DivI", "RemI",
     "GreaterThan", "GreaterThanI", "Or", "And", "Xor", "Not", "LessThanOrEqual",
     "LessThanOrEqualI", "GreaterThanOrEqual", "GreaterThanOrEqualI"}

-----------------------------------------------------------------------------
(* Function and Program (interpreter.rs)                                    *)

register_variable(func, var_type) ==
    [func EXCEPT !.variables = (func.variable_count :> var_type) @@ func.variables,
                 !.variable_count = func.variable_count + 1]

RECURSIVE register_variables(_, _)
register_variables(func, var_types) ==
    IF var_types = <<>> THEN func
    ELSE register_variables(register_variable(func, Head(var_types)), Tail(var_types))

\* Function::new: the parameters are the first registered variables
Function_new(parameters, return_type) ==
    register_variables(
        [instructions |-> <<>>, variables |-> <<>>, parameters |-> parameters,
         return_type |-> return_type, variable_count |-> 0],
        parameters)

set_instructions(func, instructions) == [func EXCEPT !.instructions = instructions]

\* get_function answering an unknown id with the entry function
get_function_or_entry(function_id) ==
    IF function_id \in DOMAIN program.functions
    THEN <<"Ok", program.functions[function_id]>>
    ELSE <<"Ok", program.functions[program.entry_point_id]>>

\* Program::get_function
get_function(function_id) ==
    IF function_id \in DOMAIN program.functions
    THEN <<"Ok", program.functions[function_id]>>
    ELSE <<"Err", "FunctionDoesNotExist", function_id>>

-----------------------------------------------------------------------------
(* ExecutionContext (interpreter.rs)                                        *)

ExecutionContext_new(func, function_id) ==
    [variables |-> [id \in DOMAIN func.variables |-> default_value(func.variables[id])],
     function_parameter_stack |-> <<>>,
     instruction_counter |-> 0,
     function_id |-> function_id,
     expecting_return_value |-> <<>>]

get_variable(ctx, var_id) ==
    IF var_id \in DOMAIN ctx.variables
    THEN <<"Ok", ctx.variables[var_id]>>
    ELSE <<"Err", "ReferencedVariableDoesNotExist", var_id>>

\* set_variable without its type check
set_variable_unchecked(ctx, var_id, value) ==
    IF var_id \notin DOMAIN ctx.variables
    THEN <<"Err", "ReferencedVariableDoesNotExist", var_id>>
    ELSE <<"Ok", [ctx EXCEPT !.variables[var_id] = value]>>

\* set_variable reporting the two types in the other order
set_variable_swapped(ctx, var_id, value) ==
    IF var_id \notin DOMAIN ctx.variables
    THEN <<"Err", "ReferencedVariableDoesNotExist", var_id>>
    ELSE IF get_type(ctx.variables[var_id]) # get_type(value)
    THEN <<"Err", "AttemptAssignedDifferentTypes",
           get_type(value), get_type(ctx.variables[var_id])>>
    ELSE <<"Ok", [ctx EXCEPT !.variables[var_id] = value]>>

set_variable(ctx, var_id, value) ==
    IF var_id \notin DOMAIN ctx.variables
    THEN <<"Err", "ReferencedVariableDoesNotExist", var_id>>
    ELSE IF get_type(ctx.variables[var_id]) # get_type(value)
    THEN <<"Err", "AttemptAssignedDifferentTypes",
           get_type(ctx.variables[var_id]), get_type(value)>>
    ELSE <<"Ok", [ctx EXCEPT !.variables[var_id] = value]>>

\* context.variables.insert(id, value) of the arithmetic arms
insert_variable(ctx, var_id, value) ==
    [ctx EXCEPT !.variables = (var_id :> value) @@ ctx.variables]

-----------------------------------------------------------------------------
(* Interpreter::execute.  The state between two actions is a loop head of   *)
(* execute: the outer `while let Some(context) = callstack.pop()` when      *)
(* context is None, the inner `while let Some(instr)` otherwise.  One       *)
(* iteration of the inner loop is the consumption of a pending return       *)
(* value (ConsumeReturn, lines 227-233) followed by the instruction's arm.  *)

MaxSteps == 36

\* Running with the loop going on after execute has returned
Running_AfterReturn == steps < MaxSteps

Running == result = <<>> /\ steps < MaxSteps

Ctx == context[1]
Code == program.functions[Ctx.function_id].instructions
AtInstruction == Running /\ context # <<>> /\ Ctx.instruction_counter < Len(Code)
Instr == Code[Ctx.instruction_counter + 1]

\* the arm of opcode `op` is entered: an instruction is fetched and no
\* return value is pending any more
Fetch(op) ==
    /\ AtInstruction
    /\ Ctx.expecting_return_value = <<>>
    /\ Instr.op = op

Event(kind, ret) ==
    [kind |-> kind, op |-> Instr.op, fid |-> Ctx.function_id,
     ic |-> Ctx.instruction_counter, ret |-> ret]

\* AfterCycle with the counter incremented after a jump as well
AfterCycle_IncrementsAfterGoto(ctx, after_cycle) ==
    IF after_cycle = <<>>
    THEN [ctx EXCEPT !.instruction_counter = ctx.instruction_counter + 1]
    ELSE [ctx EXCEPT !.instruction_counter = after_cycle[1] + 1]

\* the end of the cycle (lines 494-502): after_cycle is None or Goto(n)
AfterCycle(ctx, after_cycle) ==
    IF after_cycle = <<>>
    THEN [ctx EXCEPT !.instruction_counter = ctx.instruction_counter + 1]
    ELSE [ctx EXCEPT !.instruction_counter = after_cycle[1]]

\* the arm completes and the inner loop goes on with `ctx`
Continue(ctx, after_cycle) ==
    /\ context' = <<AfterCycle(ctx, after_cycle)>>
    /\ last_event' = Event("dispatch", <<>>)
    /\ steps' = steps + 1
    /\ UNCHANGED <<program, typed_array, typed_array_result, callstack, return_value_storage, result, output>>

\* execute returns (an Err through `?` or `return`, or a panic unwinds) with
\* the local context as `ctx`
Fail(ctx, failure) ==
    /\ result' = failure
    /\ context' = <<ctx>>
    /\ last_event' = Event("dispatch", <<>>)
    /\ steps' = steps + 1
    /\ UNCHANGED <<program, typed_array, typed_array_result, callstack, return_value_storage, output>>

\* line 216: the outer loop pops the next context
PopContext ==
    /\ Running
    /\ context = <<>>
    /\ callstack # <<>>
    /\ context' = <<callstack[Len(callstack)]>>
    /\ callstack' = SubSeq(callstack, 1, Len(callstack) - 1)
    /\ steps' = steps + 1
    /\ UNCHANGED <<program, typed_array, typed_array_result, return_value_storage, result, output, last_event>>

\* lines 216, 505: the call stack is empty and execute returns Ok(())
Finish ==
    /\ Running
    /\ context = <<>>
    /\ callstack = <<>>
    /\ result' = <<"Ok">>
    /\ last_event' = [last_event EXCEPT !.kind = "finish"]
    /\ steps' = steps + 1
    /\ UNCHANGED <<program, typed_array, typed_array_result, callstack, context, return_value_storage, output>>

\* the end of a function dropping the suspended contexts with the active one
EndOfFunction_DropsCallstack ==
    /\ Running
    /\ context # <<>>
    /\ Ctx.instruction_counter >= Len(Code)
    /\ context' = <<>>
    /\ callstack' = <<>>
    /\ last_event' = [kind |-> "end", op |-> "", fid |-> Ctx.function_id,
                      ic |-> Ctx.instruction_counter, ret |-> <<>>]
    /\ steps' = steps + 1
    /\ UNCHANGED <<program, typed_array, typed_array_result, return_value_storage, result, output>>

\* lines 220-226: no instruction at instruction_counter: the inner loop ends
\* and the context is dropped
EndOfFunction ==
    /\ Running
    /\ context # <<>>
    /\ Ctx.instruction_counter >= Len(Code)
    /\ context' = <<>>
    /\ last_event' = [kind |-> "end", op |-> "", fid |-> Ctx.function_id,
                      ic |-> Ctx.instruction_counter, ret |-> <<>>]
    /\ steps' = steps + 1
    /\ UNCHANGED <<program, typed_array, typed_array_result, callstack, return_value_storage, result, output>>

\* lines 227-233: a pending return value is taken from the register
ConsumeReturn ==
    /\ AtInstruction
    /\ Ctx.expecting_return_value # <<>>
    /\ steps' = steps + 1
    /\ UNCHANGED <<program, typed_array, typed_array_result, callstack, output>>
    /\ IF return_value_storage = <<>>
       THEN /\ result' = <<"Panic", "unwrap">>
            /\ last_event' = Event("consume", <<>>)
            /\ UNCHANGED <<context, return_value_storage>>
       ELSE LET r == set_variable(Ctx, Ctx.expecting_return_value[1],
                                  return_value_storage[1])
            IN  /\ last_event' = Event("consume", return_value_storage)
                /\ return_value_storage' = <<>>
                /\ IF r[1] = "Ok"
                   THEN /\ context' = <<[r[2] EXCEPT !.expecting_return_value = <<>>]>>
                        /\ UNCHANGED result
                   ELSE /\ result' = r
                        /\ UNCHANGED context

\* operands from two variables, or from a variable and the immediate value
VarOperand(ctx, var_id, Then(_)) ==
    LET got == get_variable(ctx, var_id)
    IN  IF got[1] = "Ok" THEN Then(got[2]) ELSE Fail(ctx, got)

\* lines 236-239
ExecSet ==
    /\ Fetch("Set")
    /\ LET Assign(value) ==
               LET r == set_variable(Ctx, Instr.a, value)
               IN  IF r[1] = "Ok" THEN Continue(r[2], <<>>) ELSE Fail(Ctx, r)
       IN  VarOperand(Ctx, Instr.b, Assign)

\* lines 240-242
ExecSetI ==
    /\ Fetch("SetI")
    /\ LET r == set_variable(Ctx, Instr.a, Instr.imm)
       IN  IF r[1] = "Ok" THEN Continue(r[2], <<>>) ELSE Fail(Ctx, r)

\* the arithmetic arms: the result of the operation is inserted at lvalue_id
\* without set_variable's check; an operation that fails ends the run
Arithmetic(Op(_, _), lvalue, rvalue) ==
    LET new_value == Op(lvalue, rvalue)
    IN  IF new_value[1] = "Ok"
        THEN Continue(insert_variable(Ctx, Instr.a, new_value[2]), <<>>)
        ELSE Fail(Ctx, new_value)

ArithmeticVar(Op(_, _)) ==
    LET L(lvalue) ==
            LET R(rvalue) == Arithmetic(Op, lvalue, rvalue)
            IN  VarOperand(Ctx, Instr.b, R)
    IN  VarOperand(Ctx, Instr.a, L)

ArithmeticImm(Op(_, _)) ==
    LET L(lvalue) == Arithmetic(Op, lvalue, Instr.imm)
    IN  VarOperand(Ctx, Instr.a, L)

\* lines 298-303
ExecAdd == Fetch("Add") /\ ArithmeticVar(op_add)
\* lines 304-309
ExecSub == Fetch("Sub") /\ ArithmeticVar(op_sub)
\* lines 312-317
ExecRem == Fetch("Rem") /\ ArithmeticVar(op_rem)
\* lines 318-322
ExecAddI == Fetch("AddI") /\ ArithmeticImm(op_add)
\* lines 323-327
ExecSubI == Fetch("SubI") /\ ArithmeticImm(op_sub)

\* the comparison arms: the result is stored with set_variable
Comparison(Op(_, _), lvalue, rvalue) ==
    LET res == Op(lvalue, rvalue)
    IN  IF res[1] # "Ok" THEN Fail(Ctx, res)
        ELSE LET r == set_variable(Ctx, Instr.a, res[2])
             IN  IF r[1] = "Ok" THEN Continue(r[2], <<>>) ELSE Fail(Ctx, r)

ComparisonVar(Op(_, _)) ==
    LET L(lvalue) ==
            LET R(rvalue) == Comparison(Op, lvalue, rvalue)
            IN  VarOperand(Ctx, Instr.c, R)
    IN  VarOperand(Ctx, Instr.b, L)

ComparisonImm(Op(_, _)) ==
    LET L(lvalue) == Comparison(Op, lvalue, Instr.imm)
    IN  VarOperand(Ctx, Instr.b, L)

\* lines 350-355
ExecLessThan == Fetch("LessThan") /\ ComparisonVar(op_less_than)
\* lines 356-360
ExecLessThanI == Fetch("LessThanI") /\ ComparisonImm(op_less_than)
\* lines 362-367
ExecEquals == Fetch("Equals") /\ ComparisonVar(op_equals)
\* lines 368-372
ExecEqualsI == Fetch("EqualsI") /\ ComparisonImm(op_equals)
\* lines 373-378
ExecNotEquals == Fetch("NotEquals") /\ ComparisonVar(op_not_equals)
\* lines 379-383
ExecNotEqualsI == Fetch("NotEqualsI") /\ ComparisonImm(op_not_equals)

\* lines 331-333
ExecGoto ==
    /\ Fetch("Goto")
    /\ Continue(Ctx, <<Instr.a>>)

\* the after_cycle a GotoIfTrue to `instruction_number` leaves for `bool`
GotoIfTrueAfterCycle(bool, instruction_number) ==
    IF bool THEN <<instruction_number>> ELSE <<>>

\* lines 334-343
ExecGotoIfTrue ==
    /\ Fetch("GotoIfTrue")
    /\ LET Branch(bool_value) ==
               IF get_bool(bool_value) # <<>>
               THEN Continue(Ctx, GotoIfTrueAfterCycle(get_bool(bool_value)[1], Instr.a))
               ELSE Fail(Ctx, <<"Panic", "todo">>)
       IN  VarOperand(Ctx, Instr.b, Branch)

\* lines 345-348
ExecPushFunctionParameterStack ==
    /\ Fetch("PushFunctionParameterStack")
    /\ LET Push(value) ==
               Continue([Ctx EXCEPT !.function_parameter_stack = Append(@, value)], <<>>)
       IN  VarOperand(Ctx, Instr.a, Push)

\* `context.get_variable(index)?.to_usize().unwrap()` of the array arms
IndexOperand(ctx, var_id, Then(_)) ==
    LET Index(value) ==
            IF is_number(value) THEN Then(to_usize(value))
            ELSE Fail(ctx, <<"Panic", "unwrap">>)
    IN  VarOperand(ctx, var_id, Index)

\* StoreElement without the comparison of the value's type with array_type
StoreElement_unchecked(ctx, array_var_id, array_index, new_value) ==
    LET array == ctx.variables[array_var_id]
    IN  IF ~is_array(array) THEN Fail(ctx, <<"Panic", "todo">>)
        ELSE IF array_index >= Len(array.v) THEN Fail(ctx, <<"Panic", "todo">>)
        ELSE Continue([ctx EXCEPT !.variables[array_var_id].v[array_index + 1] = new_value],
                      <<>>)

\* StoreElement on an array shared with the suspended contexts: the element
\* is stored in their arrays of the element type as well
StoreElement_shared(ctx, array_var_id, array_index, new_value) ==
    LET array == ctx.variables[array_var_id]
        Shared(value) ==
            IF /\ is_array(value)
               /\ array_type(value) = get_type(new_value)
               /\ array_index < Len(value.v)
            THEN [value EXCEPT !.v[array_index + 1] = new_value]
            ELSE value
    IN  IF ~is_array(array) THEN Fail(ctx, <<"Panic", "todo">>)
        ELSE IF get_type(new_value) # array_type(array) THEN Fail(ctx, <<"Panic", "todo">>)
        ELSE IF array_index >= Len(array.v) THEN Fail(ctx, <<"Panic", "todo">>)
        ELSE /\ context' = <<AfterCycle(
                    [ctx EXCEPT !.variables[array_var_id].v[array_index + 1] = new_value],
                    <<>>)>>
             /\ callstack' =
                    [i \in DOMAIN callstack |->
                        [callstack[i] EXCEPT !.variables =
                            [id \in DOMAIN @ |-> Shared(@[id])]]]
             /\ last_event' = Event("dispatch", <<>>)
             /\ steps' = steps + 1
             /\ UNCHANGED <<program, typed_array, typed_array_result, return_value_storage,
                            result, output>>

\* the array arms' `*ind = new_value` on the array held at array_var_id
StoreElement(ctx, array_var_id, array_index, new_value) ==
    LET array == ctx.variables[array_var_id]
    IN  IF ~is_array(array) THEN Fail(ctx, <<"Panic", "todo">>)
        ELSE IF get_type(new_value) # array_type(array) THEN Fail(ctx, <<"Panic", "todo">>)
        ELSE IF array_index >= Len(array.v) THEN Fail(ctx, <<"Panic", "todo">>)
        ELSE Continue([ctx EXCEPT !.variables[array_var_id].v[array_index + 1] = new_value],
                      <<>>)

\* lines 243-260
ExecSetArrayIndex ==
    /\ Fetch("SetArrayIndex")
    /\ LET WithIndex(array_index) ==
               LET WithValue(new_value) ==
                       LET WithArray(array) ==
                               StoreElement(Ctx, Instr.a, array_index, new_value)
                       IN  VarOperand(Ctx, Instr.a, WithArray)
               IN  VarOperand(Ctx, Instr.c, WithValue)
       IN  IndexOperand(Ctx, Instr.b, WithIndex)

\* lines 261-277
ExecSetArrayIndexI ==
    /\ Fetch("SetArrayIndexI")
    /\ LET WithIndex(array_index) ==
               LET WithArray(array) ==
                       StoreElement(Ctx, Instr.a, array_index, Instr.imm)
               IN  VarOperand(Ctx, Instr.a, WithArray)
       IN  IndexOperand(Ctx, Instr.b, WithIndex)

\* lines 280-296
ExecGetArrayIndex ==
    /\ Fetch("GetArrayIndex")
    /\ LET WithIndex(array_index) ==
               LET WithStore(store) ==
                       LET WithArray(array) ==
                               IF ~is_array(array) THEN Fail(Ctx, <<"Panic", "todo">>)
                               ELSE IF get_type(store) # array_type(array)
                               THEN Fail(Ctx, <<"Panic", "todo">>)
                               ELSE IF array_index >= Len(array.v)
                               THEN Fail(Ctx, <<"Panic", "todo">>)
                               ELSE LET r == set_variable(Ctx, Instr.b,
                                                          array.v[array_index + 1])
                                    IN  IF r[1] = "Ok" THEN Continue(r[2], <<>>)
                                        ELSE Fail(Ctx, r)
                       IN  VarOperand(Ctx, Instr.a, WithArray)
               IN  VarOperand(Ctx, Instr.b, WithStore)
       IN  IndexOperand(Ctx, Instr.c, WithIndex)

\* the arms that are todo!()
ExecTodo ==
    /\ AtInstruction
    /\ Ctx.expecting_return_value = <<>>
    /\ Instr.op \in TodoOps
    /\ Fail(Ctx, <<"Panic", "todo">>)

\* PushContexts pushing the new context first and the caller above it
PushContexts_Reversed(contexts) ==
    /\ callstack' = callstack \o <<contexts[2], contexts[1]>>
    /\ context' = <<>>
    /\ last_event' = Event("call", <<>>)
    /\ steps' = steps + 1
    /\ UNCHANGED <<program, typed_array, typed_array_result, return_value_storage, result, output>>

\* the contexts are pushed and the outer loop continues (continue 'execute_context)
PushContexts(contexts) ==
    /\ callstack' = callstack \o contexts
    /\ context' = <<>>
    /\ last_event' = Event("call", <<>>)
    /\ steps' = steps + 1
    /\ UNCHANGED <<program, typed_array, typed_array_result, return_value_storage, result, output>>

\* lines 393-408
ExecCallVoidFunction ==
    /\ Fetch("CallVoidFunction")
    /\ LET caller == [Ctx EXCEPT !.instruction_counter = Ctx.instruction_counter + 1]
           function == get_function(Instr.a)
       IN  IF function[1] # "Ok" \/ function[2].return_type # <<>>
           THEN \* the caller is on the call stack already when execute returns
                /\ result' = IF function[1] # "Ok" THEN function
                             ELSE <<"Err", "VoidCallToNonVoidFunction", Instr.a>>
                /\ callstack' = Append(callstack, caller)
                /\ context' = <<>>
                /\ last_event' = Event("dispatch", <<>>)
                /\ steps' = steps + 1
                /\ UNCHANGED <<program, typed_array, typed_array_result, return_value_storage, output>>
           ELSE PushContexts(<<caller, ExecutionContext_new(function[2], Instr.a)>>)

\* bind_parameters without the .rev(): the first pop goes to parameter 0
RECURSIVE bind_parameters_forward(_, _, _, _)
bind_parameters_forward(stack, new_context, parameters, n) ==
    IF n = 0 THEN <<"Ok", new_context, stack>>
    ELSE IF stack = <<>> THEN <<"Panic", "unwrap">>
    ELSE LET param_value == stack[Len(stack)]
             rest == SubSeq(stack, 1, Len(stack) - 1)
             param_id == Len(parameters) - n
         IN  IF get_type(param_value) # parameters[param_id + 1] THEN <<"Panic", "todo">>
             ELSE LET r == set_variable(new_context, param_id, param_value)
                  IN  IF r[1] # "Ok" THEN r
                      ELSE bind_parameters_forward(rest, r[2], parameters, n - 1)

\* lines 421-428: the parameters param_id = n-1, ..., 0 are popped from the
\* caller's parameter stack into the new context; <<"Ok", new_context, stack>>
\* or the failure
RECURSIVE bind_parameters(_, _, _, _)
bind_parameters(stack, new_context, parameters, n) ==
    IF n = 0 THEN <<"Ok", new_context, stack>>
    ELSE IF stack = <<>> THEN <<"Panic", "unwrap">>
    ELSE LET param_value == stack[Len(stack)]
             rest == SubSeq(stack, 1, Len(stack) - 1)
         IN  IF get_type(param_value) # parameters[n] THEN <<"Panic", "todo">>
             ELSE LET r == set_variable(new_context, n - 1, param_value)
                  IN  IF r[1] # "Ok" THEN r
                      ELSE bind_parameters(rest, r[2], parameters, n - 1)

\* lines 409-435
ExecCallFunction ==
    /\ Fetch("CallFunction")
    /\ LET caller == [Ctx EXCEPT !.instruction_counter = Ctx.instruction_counter + 1,
                                 !.expecting_return_value = <<Instr.b>>]
           function == get_function(Instr.a)
       IN  IF function[1] # "Ok" THEN Fail(caller, function)
           ELSE IF function[2].return_type = <<>>
           THEN Fail(caller, <<"Err", "ExpectingReturnCallToVoidFunction", Instr.a>>)
           ELSE LET bound == bind_parameters(caller.function_parameter_stack,
                                             ExecutionContext_new(function[2], Instr.a),
                                             function[2].parameters,
                                             Len(function[2].parameters))
                IN  IF bound[1] # "Ok" THEN Fail(caller, bound)
                    ELSE PushContexts(
                             <<[caller EXCEPT !.function_parameter_stack = bound[3]],
                               bound[2]>>)

\* the print arm writing the value before the earlier output
ExecCallVoidNativeFunction_Prepends ==
    /\ Fetch("CallVoidNativeFunction")
    /\ IF Instr.a # 0 THEN Fail(Ctx, <<"Panic", "unimplemented">>)
       ELSE IF Ctx.function_parameter_stack = <<>> THEN Fail(Ctx, <<"Panic", "unwrap">>)
       ELSE LET stack == Ctx.function_parameter_stack
                popped == [Ctx EXCEPT !.function_parameter_stack =
                                          SubSeq(stack, 1, Len(stack) - 1)]
            IN  IF popped.function_parameter_stack # <<>>
                THEN Fail(popped, <<"Panic", "assert">>)
                ELSE /\ output' = <<stack[Len(stack)]>> \o output
                     /\ context' = <<AfterCycle(popped, <<>>)>>
                     /\ last_event' = Event("dispatch", <<>>)
                     /\ steps' = steps + 1
                     /\ UNCHANGED <<program, typed_array, typed_array_result, callstack, return_value_storage, result>>

\* lines 436-446
ExecCallVoidNativeFunction ==
    /\ Fetch("CallVoidNativeFunction")
    /\ IF Instr.a # 0 THEN Fail(Ctx, <<"Panic", "unimplemented">>)
       ELSE IF Ctx.function_parameter_stack = <<>> THEN Fail(Ctx, <<"Panic", "unwrap">>)
       ELSE LET stack == Ctx.function_parameter_stack
                popped == [Ctx EXCEPT !.function_parameter_stack =
                                          SubSeq(stack, 1, Len(stack) - 1)]
            IN  IF popped.function_parameter_stack # <<>>
                THEN Fail(popped, <<"Panic", "assert">>)
                ELSE /\ output' = Append(output, stack[Len(stack)])
                     /\ context' = <<AfterCycle(popped, <<>>)>>
                     /\ last_event' = Event("dispatch", <<>>)
                     /\ steps' = steps + 1
                     /\ UNCHANGED <<program, typed_array, typed_array_result, callstack, return_value_storage, result>>

\* Return keeping the frame: the value is stored and the inner loop goes on
\* with the next instruction
ExecReturn_KeepsFrame ==
    /\ Fetch("Return")
    /\ LET Store(value) ==
               /\ return_value_storage' = <<value>>
               /\ context' = <<AfterCycle(Ctx, <<>>)>>
               /\ last_event' = Event("return", <<value>>)
               /\ steps' = steps + 1
               /\ UNCHANGED <<program, typed_array, typed_array_result, callstack, result, output>>
       IN  VarOperand(Ctx, Instr.a, Store)

\* lines 447-451
ExecReturn ==
    /\ Fetch("Return")
    /\ LET Store(value) ==
               /\ return_value_storage' = <<value>>
               /\ context' = <<>>
               /\ last_event' = Event("return", <<value>>)
               /\ steps' = steps + 1
               /\ UNCHANGED <<program, typed_array, typed_array_result, callstack, result, output>>
       IN  VarOperand(Ctx, Instr.a, Store)

\* lines 452-471
ExecCallNativeVoidMethod ==
    /\ Fetch("CallNativeVoidMethod")
    /\ IF Instr.b # 0 THEN Fail(Ctx, <<"Panic", "todo">>)
       ELSE IF Ctx.function_parameter_stack = <<>> THEN Fail(Ctx, <<"Panic", "unwrap">>)
       ELSE LET stack == Ctx.function_parameter_stack
                push_value == stack[Len(stack)]
                popped == [Ctx EXCEPT !.function_parameter_stack =
                                          SubSeq(stack, 1, Len(stack) - 1)]
                WithArray(array) ==
                    IF ~is_array(array) THEN Fail(popped, <<"Panic", "todo">>)
                    ELSE IF get_type(push_value) # array_type(array)
                    THEN Fail(popped, <<"Panic", "todo">>)
                    ELSE Continue([popped EXCEPT !.variables[Instr.a].v =
                                                     Append(@, push_value)], <<>>)
            IN  VarOperand(popped, Instr.a, WithArray)

\* lines 472-488
ExecCallNativeMethod ==
    /\ Fetch("CallNativeMethod")
    /\ IF Instr.c # 1 THEN Fail(Ctx, <<"Panic", "todo">>)
       ELSE LET WithArray(array) ==
                    IF ~is_array(array) THEN Fail(Ctx, <<"Panic", "todo">>)
                    ELSE /\ context' = <<AfterCycle(
                                [Ctx EXCEPT !.expecting_return_value = <<Instr.b>>], <<>>)>>
                         /\ return_value_storage' = <<Num(U64, Len(array.v))>>
                         /\ last_event' = Event("dispatch", <<>>)
                         /\ steps' = steps + 1
                         /\ UNCHANGED <<program, typed_array, typed_array_result, callstack, result, output>>
            IN  VarOperand(Ctx, Instr.a, WithArray)

-----------------------------------------------------------------------------
(* The programs: an entry function 0 (no parameters, no return type), a     *)
(* function 1 (two U8 parameters, returns Bool) and a void function 2 (one  *)
(* U8 parameter), built with the builder API as the tests and the benchmark *)
(* build theirs.  The entry function's instructions are a prologue that     *)
(* sets two variables followed by up to three segments.                     *)

\* main: 0 U8, 1 Bool, 2 U8, 3 Array(U8), 4 U64, 5 U8
Function0(instructions) ==
    set_instructions(
        register_variables(Function_new(<<>>, <<>>),
                           <<U8, Bool, U8, ArrayOf(U8), U64, U8>>),
        instructions)

\* function 1: parameters 0 U8, 1 U8; 2 Bool, 3 Array(U8), 4 U64
Function1(instructions) ==
    set_instructions(
        register_variables(Function_new(<<U8, U8>>, <<Bool>>),
                           <<Bool, ArrayOf(U8), U64>>),
        instructions)

\* function 2: parameter 0 U8; 1 Bool
Function2(instructions) ==
    set_instructions(register_variables(Function_new(<<U8>>, <<>>), <<Bool>>),
                     instructions)

Program_new(functions, entry_function) ==
    [functions |-> functions, entry_point_id |-> entry_function]

Push(var_id) == PushFunctionParameterStack(var_id)
Println == CallVoidNativeFunction(0)

Prologue == <<SetI(0, Num(U8, 5)), SetI(2, Num(U8, 7))>>

\* segments that call a function, with the pushes before the call
CallSegments ==
    {pushes \o <<CallFunction(1, 1)>> :
        pushes \in {<<>>, <<Push(0)>>, <<Push(0), Push(2)>>, <<Push(2), Push(0)>>,
                    <<Push(0), Push(1)>>, <<Push(0), Push(2), Push(0)>>}}
    \cup {pushes \o <<CallVoidFunction(2)>> :
        pushes \in {<<>>, <<Push(0)>>, <<Push(0), Push(2)>>, <<Push(1)>>}}
    \cup {<<Push(0), Push(2), CallFunction(1, 0)>>,
          <<Push(0), Push(2), CallFunction(1, 4)>>,
          <<Push(0), Push(2), CallFunction(1, 9)>>}

\* segments whose call fails before any frame is made
BadCallSegments ==
    {<<Push(0), Push(2), CallVoidFunction(1)>>, <<Push(0), CallFunction(2, 1)>>,
     <<CallFunction(9, 1)>>, <<CallVoidFunction(9)>>}

\* segments that set values up for the segment that follows
SetupSegments ==
    {<<>>, <<SetI(1, BoolV(TRUE))>>, <<LessThan(1, 0, 2)>>, <<Push(0)>>,
     <<Push(0), CallNativeVoidMethod(3, 0)>>, <<CallNativeMethod(3, 4, 1)>>}

\* segments that complete
PlainSegments ==
    {<<Set(2, 0)>>,
     <<Add(0, 2)>>, <<Sub(0, 2)>>, <<Rem(2, 0)>>,
     <<AddI(0, Num(U8, 255))>>, <<SubI(0, Num(U8, 6))>>,
     <<AddI(4, Num(U64, 65535)), AddI(4, Num(U64, 1))>>, <<SubI(4, Num(U64, 1))>>,
     <<LessThanI(1, 0, Num(U8, 5))>>,
     <<Equals(1, 0, 2)>>, <<EqualsI(1, 0, Num(U8, 5))>>,
     <<NotEquals(1, 0, 2)>>, <<NotEqualsI(1, 0, Num(U8, 5))>>,
     <<Goto(4), SetI(0, Num(U8, 1)), SetI(2, Num(U8, 2))>>, <<Goto(1)>>, <<Goto(99)>>,
     <<GotoIfTrue(5, 1), SetI(0, Num(U8, 1)), SetI(2, Num(U8, 2))>>,
     <<GotoIfTrue(0, 1)>>, <<GotoIfTrue(99, 1), Push(1), Println>>,
     <<Push(0), Println>>, <<Push(3), Println>>,
     <<CallNativeMethod(3, 1, 1)>>, <<CallNativeMethod(3, 4, 1), Push(4), Println>>,
     <<SetArrayIndex(3, 5, 2)>>, <<SetArrayIndexI(3, 5, Num(U8, 9))>>,
     <<GetArrayIndex(3, 2, 5)>>,
     <<Return(0)>>, <<Return(0), SetI(0, Num(U8, 1))>>}

\* segments that fail
FailingSegments ==
    {<<Set(1, 0)>>, <<Set(0, 9)>>, <<Set(9, 0)>>,
     <<SetI(1, Num(U64, 1))>>, <<SetI(9, Num(U8, 1))>>, <<SetI(0, Num(U16, 1))>>,
     <<SetI(1, Num(U64, 1)), SetI(0, Num(U8, 1))>>,
     <<Add(0, 1)>>, <<Add(0, 4)>>, <<AddI(0, Num(U16, 1))>>, <<Rem(0, 5)>>,
     <<Sub(0, 9)>>, <<SubI(1, BoolV(TRUE))>>,
     <<LessThan(0, 0, 2)>>, <<LessThanI(1, 1, BoolV(TRUE))>>,
     <<Equals(1, 3, 3)>>, <<EqualsI(1, 0, BoolV(TRUE))>>,
     <<NotEquals(1, 0, 4)>>, <<NotEqualsI(0, 0, Num(U8, 5))>>,
     <<GotoIfTrue(4, 0)>>, <<GotoIfTrue(4, 9)>>,
     <<Println>>, <<Push(0), Push(2), Println>>, <<Push(9)>>,
     <<CallVoidNativeFunction(1)>>,
     <<Push(1), CallNativeVoidMethod(3, 0)>>, <<CallNativeVoidMethod(3, 0)>>,
     <<Push(0), CallNativeVoidMethod(0, 0)>>, <<Push(0), CallNativeVoidMethod(3, 1)>>,
     <<CallNativeMethod(0, 4, 1)>>, <<CallNativeMethod(3, 4, 0)>>,
     <<SetArrayIndex(3, 1, 2)>>, <<SetArrayIndexI(3, 5, BoolV(TRUE))>>,
     <<SetArrayIndexI(0, 5, Num(U8, 9))>>, <<GetArrayIndex(3, 1, 5)>>,
     <<GetArrayIndex(3, 2, 4)>>, <<GetArrayIndex(0, 2, 5)>>, <<GetArrayIndex(3, 2, 1)>>,
     <<Return(9)>>,
     <<Ins("Mul", 0, 2, 0, NoValue)>>, <<Ins("RemI", 0, 0, 0, Num(U8, 0))>>,
     <<Ins("Not", 1, 0, 0, NoValue)>>}

\* what follows a call segment
FollowSegments ==
    {<<>>, <<Push(1), Println>>, <<Push(0), Println>>, <<SetI(1, BoolV(FALSE))>>,
     <<GotoIfTrue(99, 1), Push(1), Println>>, <<Return(1)>>}

\* the calls of the programs that call twice
TwiceSegments ==
    {<<Push(0), Push(2), CallFunction(1, 1)>>, <<Push(0), Push(2), CallFunction(1, 0)>>,
     <<Push(0), CallVoidFunction(2)>>}

Function0Codes ==
    {Prologue \o first \o second :
        first \in SetupSegments,
        second \in SetupSegments \cup PlainSegments \cup FailingSegments
                   \cup BadCallSegments}
    \cup {Prologue \o first \o second \o third :
        first \in {<<>>, <<Push(0)>>, <<CallNativeMethod(3, 4, 1)>>, <<Push(0), Println>>},
        second \in CallSegments,
        third \in FollowSegments}
    \cup {Prologue \o first \o second \o third :
        first \in TwiceSegments,
        second \in TwiceSegments,
        third \in {<<>>, <<Push(1), Println>>}}

Function1Codes ==
    {<<>>,
     <<LessThan(2, 0, 1), Return(2)>>,
     <<Return(0)>>,
     <<SetI(2, BoolV(TRUE))>>,
     <<SetI(2, BoolV(TRUE)), Push(2), Println, Return(2), SetI(2, BoolV(FALSE))>>,
     <<CallNativeMethod(3, 4, 1)>>,
     <<CallVoidFunction(2), Return(2)>>}

Function2Codes ==
    {<<>>,
     <<Push(0), Println>>,
     <<Return(0)>>,
     <<Push(0), Push(0), CallFunction(1, 1)>>}

Calls(instructions, function_id) ==
    \E i \in 1..Len(instructions) :
        /\ instructions[i].op \in {"CallFunction", "CallVoidFunction"}
        /\ instructions[i].a = function_id

\* main of the programs that copy arrays: 0 Array(U8), 1 Array(U8), 2 U8, 3 U8,
\* 4 U8
FunctionSharing(instructions) ==
    set_instructions(
        register_variables(Function_new(<<>>, <<>>),
                           <<ArrayOf(U8), ArrayOf(U8), U8, U8, U8>>),
        instructions)

\* their function 1: parameter 0 Array(U8), returns U8; 1 U8, 2 U8
FunctionMutating(instructions) ==
    set_instructions(
        register_variables(Function_new(<<ArrayOf(U8)>>, <<U8>>), <<U8, U8>>),
        instructions)

\* U8(5) is pushed on array 0, which is then copied by Set, by a parameter
\* push and a call, or read by GetArrayIndex; the copy or the source is
\* changed afterwards
SharingCodes ==
    {<<SetI(2, Num(U8, 5)), Push(2), CallNativeVoidMethod(0, 0)>> \o rest :
        rest \in {<<Set(1, 0), Push(2), CallNativeVoidMethod(1, 0),
                    SetArrayIndexI(1, 3, Num(U8, 9))>>,
                  <<Set(1, 0), SetArrayIndexI(0, 3, Num(U8, 9))>>,
                  <<GetArrayIndex(0, 4, 3), SetArrayIndexI(0, 3, Num(U8, 9))>>,
                  <<Push(0), CallFunction(1, 4), SetI(2, Num(U8, 1))>>,
                  <<Push(0), Push(2), CallNativeVoidMethod(0, 0), CallFunction(1, 4),
                    SetI(2, Num(U8, 1))>>,
                  <<Push(0), CallFunction(1, 4), Push(0), CallFunction(1, 4),
                    SetI(2, Num(U8, 1))>>}}

MutatingCodes ==
    {<<Push(1), CallNativeVoidMethod(0, 0), SetArrayIndexI(0, 1, Num(U8, 9)), Return(1)>>,
     <<SetArrayIndexI(0, 1, Num(U8, 9)), GetArrayIndex(0, 2, 1), Return(2),
       SetI(1, Num(U8, 1))>>,
     <<AddI(1, Num(U8, 3)), Push(1), CallNativeVoidMethod(0, 0), Push(1), Return(1)>>}

SharingPrograms ==
    {Program_new(0 :> FunctionSharing(c0) @@ 1 :> FunctionMutating(c1), 0) :
        c0 \in SharingCodes, c1 \in MutatingCodes}

\* a function no call reaches has no instructions
CallPrograms ==
    {Program_new(0 :> Function0(c0) @@ 1 :> Function1(c1) @@ 2 :> Function2(c2), 0) :
        <<c0, c1, c2>> \in
            {t \in Function0Codes \X Function1Codes \X Function2Codes :
                /\ t[2] # <<>> => Calls(t[1], 1) \/ (Calls(t[1], 2) /\ Calls(t[3], 1))
                /\ t[3] # <<>> => Calls(t[1], 2) \/ (Calls(t[1], 1) /\ Calls(t[2], 2))}}

Programs == CallPrograms \cup SharingPrograms

-----------------------------------------------------------------------------
(* Interpreter::new and the specification                                   *)

\* Interpreter::new(program)
Interpreter_new(p) ==
    /\ program = p
    /\ callstack = <<ExecutionContext_new(p.functions[p.entry_point_id],
                                          p.entry_point_id)>>
    /\ context = <<>>
    /\ return_value_storage = <<>>
    /\ result = <<>>
    /\ output = <<>>
    /\ last_event = [kind |-> "none", op |-> "", fid |-> 0, ic |-> 0, ret |-> <<>>]
    /\ steps = 0
    /\ typed_array = <<>>
    /\ typed_array_result = <<>>

Init == \E p \in Programs : Interpreter_new(p)

Next ==
    \/ PopContext
    \/ Finish
    \/ EndOfFunction
    \/ ConsumeReturn
    \/ ExecSet
    \/ ExecSetI
    \/ ExecSetArrayIndex
    \/ ExecSetArrayIndexI
    \/ ExecGetArrayIndex
    \/ ExecAdd
    \/ ExecSub
    \/ ExecRem
    \/ ExecAddI
    \/ ExecSubI
    \/ ExecGoto
    \/ ExecGotoIfTrue
    \/ ExecPushFunctionParameterStack
    \/ ExecLessThan
    \/ ExecLessThanI
    \/ ExecEquals
    \/ ExecEqualsI
    \/ ExecNotEquals
    \/ ExecNotEqualsI
    \/ ExecTodo
    \/ ExecCallVoidFunction
    \/ ExecCallFunction
    \/ ExecCallVoidNativeFunction
    \/ ExecReturn
    \/ ExecCallNativeVoidMethod
    \/ ExecCallNativeMethod

Spec == Init /\ [][Next]_vars

-----------------------------------------------------------------------------
(* The arithmetic programs: one function with two variables of one unsigned  *)
(* type, set to two values and combined by one arithmetic instruction.       *)

\* values at the ends of each width and at the limb boundaries
ArithmeticValues(t) ==
    {[t |-> t, v |-> limbs] : limbs \in
        CASE t = U8 -> {<<0>>, <<1>>, <<2>>, <<5>>, <<127>>, <<128>>, <<254>>, <<255>>}
          [] t = U16 -> {<<0>>, <<1>>, <<2>>, <<255>>, <<256>>, <<32768>>, <<65534>>,
                         <<65535>>}
          [] t = U32 -> {<<0, 0>>, <<1, 0>>, <<2, 0>>, <<65535, 0>>, <<0, 1>>,
                         <<0, 32768>>, <<65534, 65535>>, <<65535, 65535>>}
          [] t = U64 -> {<<0, 0, 0, 0>>, <<1, 0, 0, 0>>, <<2, 0, 0, 0>>,
                         <<65535, 0, 0, 0>>, <<0, 1, 0, 0>>, <<65535, 65535, 0, 0>>,
                         <<0, 0, 1, 0>>, <<0, 0, 0, 32768>>,
                         <<65534, 65535, 65535, 65535>>,
                         <<65535, 65535, 65535, 65535>>}}

\* variables 0 and 1 of type t, 2 a Bool
FunctionArithmetic(t, instructions) ==
    set_instructions(register_variables(Function_new(<<>>, <<>>), <<t, t, Bool>>),
                     instructions)

\* the instruction of opcode `op` on variables 0 and 1, or on variable 0 and
\* the immediate value
ArithmeticInstruction(op, rvalue) ==
    IF op \in {"Add", "Sub", "Rem"} THEN Ins(op, 0, 1, 0, NoValue)
    ELSE Ins(op, 0, 0, 0, rvalue)

ArithmeticPrograms ==
    {Program_new(
         0 :> FunctionArithmetic(
                  q[1], <<SetI(0, q[2]), SetI(1, q[3]), ArithmeticInstruction(q[4], q[3])>>),
         0) :
        q \in UNION {{t} \X ArithmeticValues(t) \X ArithmeticValues(t)
                         \X {"Add", "Sub", "Rem", "AddI", "SubI", "RemI"} :
                     t \in NumericTypes}}

\* variables 0..8 of every kind of type: four unsigned widths, Bool, String,
\* an array, a second U8 and a second Bool
FunctionOperands(instructions) ==
    set_instructions(
        register_variables(Function_new(<<>>, <<>>),
                           <<U8, U16, U32, U64, Bool, String, ArrayOf(U8), U8, Bool>>),
        instructions)

\* an immediate operand of every kind of type
ImmediateOperands ==
    {Num(U8, 4), Num(U16, 4), Num(U32, 4), Num(U64, 4), BoolV(TRUE), StringV("a"),
     ArrayV(U8, <<>>), ArrayV(Bool, <<>>)}

\* one arithmetic or comparison instruction on every pair of operand types;
\* the comparisons store in variable 8
OperandInstructions ==
    {Ins(op, a, b, 0, NoValue) : op \in {"Add", "Sub", "Rem"}, a \in 0..7, b \in 0..7}
    \cup {Ins(op, a, 0, 0, imm) :
             op \in {"AddI", "SubI", "RemI"}, a \in 0..7, imm \in ImmediateOperands}
    \cup {Ins(op, 8, a, b, NoValue) :
             op \in {"LessThan", "Equals", "NotEquals"}, a \in 0..7, b \in 0..7}
    \cup {Ins(op, 8, a, 0, imm) :
             op \in {"LessThanI", "EqualsI", "NotEqualsI"}, a \in 0..7,
             imm \in ImmediateOperands}

OperandPrograms ==
    {Program_new(
         0 :> FunctionOperands(<<SetI(0, Num(U8, 6)), SetI(7, Num(U8, 4)), instruction>>),
         0) :
        instruction \in OperandInstructions}

InitArithmetic == \E p \in ArithmeticPrograms \cup OperandPrograms : Interpreter_new(p)

NextArithmetic ==
    \/ PopContext
    \/ Finish
    \/ EndOfFunction
    \/ ExecSetI
    \/ ExecAdd
    \/ ExecSub
    \/ ExecRem
    \/ ExecAddI
    \/ ExecSubI
    \/ ExecLessThan
    \/ ExecLessThanI
    \/ ExecEquals
    \/ ExecEqualsI
    \/ ExecNotEquals
    \/ ExecNotEqualsI
    \/ ExecTodo

SpecArithmetic == InitArithmetic /\ [][NextArithmetic]_vars

-----------------------------------------------------------------------------
(* The loop programs: a counter that is incremented until it reaches a      *)
(* limit, in the bare form and in the form of test_basic_loop, whose body   *)
(* also adds 32 to a variable and prints it.                                *)

MaxLimit == 10
MaxPrintedLimit == 4

\* variables 0 and 1 of type t, 2 a Bool
FunctionLoop(t, instructions) ==
    set_instructions(register_variables(Function_new(<<>>, <<>>), <<t, t, Bool>>),
                     instructions)

\* AddI(counter, 1); LessThanI(cond, counter, N); GotoIfTrue(0, cond)
CountedLoop(t, limit) ==
    <<AddI(1, Num(t, 1)), LessThanI(2, 1, Num(t, limit)), GotoIfTrue(0, 2)>>

\* the instructions of test_basic_loop with the limit `limit`
PrintedLoop(t, limit) ==
    <<SetI(1, Num(t, 0)), AddI(0, Num(t, 32)), Push(0), Println,
      AddI(1, Num(t, 1)), LessThanI(2, 1, Num(t, limit)), GotoIfTrue(1, 2)>>

LoopPrograms ==
    {Program_new(0 :> FunctionLoop(t, CountedLoop(t, limit)), 0) :
        t \in {U8, U64}, limit \in 1..MaxLimit}
    \cup {Program_new(0 :> FunctionLoop(t, PrintedLoop(t, limit)), 0) :
        t \in {U8, U64}, limit \in 1..MaxPrintedLimit}

InitLoop == \E p \in LoopPrograms : Interpreter_new(p)

NextLoop ==
    \/ PopContext
    \/ Finish
    \/ EndOfFunction
    \/ ExecSetI
    \/ ExecAddI
    \/ ExecLessThanI
    \/ ExecGotoIfTrue
    \/ ExecPushFunctionParameterStack
    \/ ExecCallVoidNativeFunction

\* execute is one sequential loop: while it has a step to take it takes it
SpecLoop == InitLoop /\ [][NextLoop]_vars /\ WF_vars(NextLoop)

-----------------------------------------------------------------------------
(* The array operations of value.rs applied to one ArrayValue: it starts as  *)
(* ArrayValue::new of an element type, or as an array of arrays built with   *)
(* the ArrayArray constructor, and is pushed to and stored into.             *)

MaxArrayLen == 2

ArrayElementTypes == ScalarTypes \cup {ArrayOf(U8), ArrayOf(Bool), ArrayOf(ArrayOf(U8))}

\* the values pushed and stored: two of each scalar type and four arrays
ArrayOperands ==
    {Num(U8, 1), Num(U8, 255), Num(U16, 1), Num(U16, 65535), Num(U32, 1),
     Num(U32, 65536), Num(U64, 1), Num(U64, 65536), BoolV(TRUE), BoolV(FALSE),
     StringV("a"), StringV(""),
     ValueArray(ArrayValue_new(U8)), ValueArray(ArrayValue_new(Bool)),
     ValueArray(ArrayValue_new(ArrayOf(U8))),
     ValueArray([variant |-> "U8Array", inner |-> <<>>, items |-> <<<<7>>>>])}

InitialArrays ==
    {ArrayValue_new(t) : t \in ArrayElementTypes}
    \cup {[variant |-> "ArrayArray", inner |-> U8,
           items |-> <<ArrayValue_new(U8),
                       [variant |-> "U8Array", inner |-> <<>>, items |-> <<<<7>>>>]>>]}

InitArray ==
    /\ program = Program_new(0 :> Function_new(<<>>, <<>>), 0)
    /\ callstack = <<>>
    /\ context = <<>>
    /\ return_value_storage = <<>>
    /\ result = <<"Ok">>
    /\ output = <<>>
    /\ last_event = [kind |-> "none", op |-> "", fid |-> 0, ic |-> 0, ret |-> <<>>]
    /\ steps = 0
    /\ typed_array \in {<<a>> : a \in InitialArrays}
    /\ typed_array_result = <<>>

\* the operation's Result is kept and, when it is Ok, the array it has made
ApplyToArray(op, index, value, r) ==
    /\ typed_array' = IF r[1] = "Ok" THEN <<r[2]>> ELSE typed_array
    /\ typed_array_result' = <<[op |-> op, index |-> index, value |-> value,
                                result |-> IF r[1] = "Ok" THEN <<"Ok">> ELSE r]>>
    /\ UNCHANGED <<program, callstack, context, return_value_storage, result, output,
                   last_event, steps>>

ArrayPush ==
    /\ typed_array # <<>>
    /\ len(typed_array[1]) < MaxArrayLen
    /\ \E value \in ArrayOperands :
           ApplyToArray("push", 0, value, push(typed_array[1], value))

ArraySetIndex ==
    /\ typed_array # <<>>
    /\ \E index \in 0..MaxArrayLen, value \in ArrayOperands :
           ApplyToArray("set_index", index, value, set_index(typed_array[1], index, value))

NextArray == ArrayPush \/ ArraySetIndex

SpecArray == InitArray /\ [][NextArray]_vars

-----------------------------------------------------------------------------
(* The programs and the array operations side by side: a behaviour is a run  *)
(* of execute on a program or a sequence of operations on an ArrayValue.     *)

InitValues == Init \/ InitArray

NextValues == Next \/ NextArray

SpecValues == InitValues /\ [][NextValues]_vars

-----------------------------------------------------------------------------
(* The claims                                                               *)

\* C1: slot typing.  In every reachable state, every frame on the call stack
\* and the active one holds, in each slot its function declares, a value of
\* the declared type (and holds no other slot).
C1_SlotTyping ==
    \A frame \in {callstack[i] : i \in 1..Len(callstack)}
                 \cup {context[i] : i \in 1..Len(context)} :
        LET declared == program.functions[frame.function_id].variables
        IN  /\ DOMAIN frame.variables = DOMAIN declared
            /\ \A id \in DOMAIN declared :
                   get_type(frame.variables[id]) = declared[id]

\* a returned Bool has been assigned to the caller's slot 1
C1_Witness ==
    /\ last_event.kind = "consume"
    /\ result = <<>>
    /\ context # <<>>
    /\ context[1].variables[1] = BoolV(TRUE)

\* C2: return plumbing.  When a caller that awaits a return value becomes
\* active again after its callee has ended, its next step either assigns the
\* value the callee's Return stored to the destination slot or ends the run
\* with an error (any failure is counted as one here).
C2_ReturnPlumbing ==
    [][(/\ result = <<>>
        /\ context # <<>>
        /\ Ctx.expecting_return_value # <<>>
        /\ last_event.kind \in {"return", "end"})
       => \/ result' # <<>> /\ result'[1] # "Ok"
          \/ /\ last_event.kind = "return"
             /\ last_event'.kind = "consume"
             /\ context' # <<>>
             /\ context'[1].variables[Ctx.expecting_return_value[1]] = last_event.ret[1]
      ]_vars

\* C3: missing return.  When the callee of a CallFunction has reached the end
\* of its instructions without Return, the register is empty as the caller
\* resumes and the caller's next step fails with NoReturnValue.
C3_MissingReturn ==
    [][(/\ result = <<>>
        /\ context # <<>>
        /\ Ctx.expecting_return_value # <<>>
        /\ last_event.kind = "end")
       => /\ return_value_storage = <<>>
          /\ result' = <<"Err", "NoReturnValue">>
      ]_vars

\* C4: parameter binding order.  A CallFunction that succeeds on a function
\* with k parameters binds the last k values of the caller's parameter stack,
\* in push order, to the callee's slots 0..k-1 and removes them from the
\* caller's stack.
C4_BindingOrder ==
    [][(/\ AtInstruction
        /\ Ctx.expecting_return_value = <<>>
        /\ Instr.op = "CallFunction"
        /\ last_event'.kind = "call")
       => LET queue == Ctx.function_parameter_stack
              k == Len(program.functions[Instr.a].parameters)
              callee == callstack'[Len(callstack')]
              caller == callstack'[Len(callstack') - 1]
          IN  /\ Len(callstack') = Len(callstack) + 2
              /\ Len(queue) >= k
              /\ callee.function_id = Instr.a
              /\ \A i \in 1..k : callee.variables[i - 1] = queue[Len(queue) - k + i]
              /\ caller.function_parameter_stack = SubSeq(queue, 1, Len(queue) - k)
      ]_vars

\* push(5); push(7); call has made a frame of function 1 with slots 0, 1 = 5, 7
C4_Witness ==
    /\ last_event.kind = "call"
    /\ last_event.op = "CallFunction"
    /\ context = <<>>
    /\ callstack # <<>>
    /\ callstack[Len(callstack)].function_id = 1
    /\ callstack[Len(callstack)].variables[0] = Num(U8, 5)
    /\ callstack[Len(callstack)].variables[1] = Num(U8, 7)

\* C5: CallVoidFunction binds parameters as CallFunction does: a successful
\* call of a void function with k parameters binds the last k pushed values to
\* the callee's slots 0..k-1 and removes them from the caller's stack.
C5_VoidCallBinds ==
    [][(/\ AtInstruction
        /\ Ctx.expecting_return_value = <<>>
        /\ Instr.op = "CallVoidFunction"
        /\ last_event'.kind = "call")
       => LET queue == Ctx.function_parameter_stack
              k == Len(program.functions[Instr.a].parameters)
              callee == callstack'[Len(callstack')]
              caller == callstack'[Len(callstack') - 1]
          IN  /\ Len(queue) >= k
              /\ \A i \in 1..k : callee.variables[i - 1] = queue[Len(queue) - k + i]
              /\ caller.function_parameter_stack = SubSeq(queue, 1, Len(queue) - k)
              /\ caller.expecting_return_value = <<>>
      ]_vars

\* C6: call symmetry.  A call of an existing function of the right return
\* kind with k parameters succeeds only with exactly k values on the caller's
\* parameter stack, and then leaves the stack empty; with fewer or more the
\* engine reports a parameter error.
C6_CallSymmetry ==
    [][(/\ AtInstruction
        /\ Ctx.expecting_return_value = <<>>
        /\ Instr.op \in {"CallFunction", "CallVoidFunction"}
        /\ Instr.a \in DOMAIN program.functions
        /\ (Instr.op = "CallFunction") = (program.functions[Instr.a].return_type # <<>>))
       => LET queue == Ctx.function_parameter_stack
              k == Len(program.functions[Instr.a].parameters)
          IN  IF Len(queue) = k
              THEN last_event'.kind = "call" =>
                       callstack'[Len(callstack') - 1].function_parameter_stack = <<>>
              ELSE /\ Len(result') >= 2
                   /\ result'[1] = "Err"
                   /\ result'[2] \in {"FunctionCallParameterStackEmptyPop",
                                      "FunctionCallParametersInvalid"}
      ]_vars

\* C7: parameter errors are returned as values.  A CallFunction whose
\* parameter stack runs empty before every parameter is bound returns
\* FunctionCallParameterStackEmptyPop(fid), one that pops a value of another
\* type than the parameter's returns FunctionCallParametersInvalid, and no
\* frame of the callee is made.
C7_ParameterErrors ==
    [][(/\ AtInstruction
        /\ Ctx.expecting_return_value = <<>>
        /\ Instr.op = "CallFunction"
        /\ Instr.a \in DOMAIN program.functions
        /\ program.functions[Instr.a].return_type # <<>>)
       => LET queue == Ctx.function_parameter_stack
              parameters == program.functions[Instr.a].parameters
              k == Len(parameters)
              \* the j-th pop (j = 1 for the last parameter) meets another type
              Mismatch(j) == get_type(queue[Len(queue) - j + 1]) # parameters[k - j + 1]
              pops == IF Len(queue) < k THEN Len(queue) ELSE k
          IN  IF \E j \in 1..pops : Mismatch(j)
              THEN /\ Len(result') >= 2
                   /\ result'[1] = "Err"
                   /\ result'[2] = "FunctionCallParametersInvalid"
                   /\ callstack' = callstack
              ELSE Len(queue) < k =>
                       /\ result' = <<"Err", "FunctionCallParameterStackEmptyPop", Instr.a>>
                       /\ callstack' = callstack
      ]_vars

\* C8: goto determinism.  GotoIfTrue(n, b) on a true Bool continues the frame
\* at n, on a false one at ic + 1, and Goto(n) at n; the step changes nothing
\* else: no slot, not the parameter stack, the call stack, the register or
\* the output.
C8_GotoDeterminism ==
    [][(/\ AtInstruction
        /\ Ctx.expecting_return_value = <<>>
        /\ \/ Instr.op = "Goto"
           \/ /\ Instr.op = "GotoIfTrue"
              /\ Instr.b \in DOMAIN Ctx.variables
              /\ get_type(Ctx.variables[Instr.b]) = Bool)
       => LET target == IF Instr.op = "Goto" \/ Ctx.variables[Instr.b].v
                        THEN Instr.a
                        ELSE Ctx.instruction_counter + 1
          IN  /\ context' = <<[Ctx EXCEPT !.instruction_counter = target]>>
              /\ UNCHANGED <<program, typed_array, typed_array_result, callstack, return_value_storage, result, output>>
      ]_vars

\* the GotoIfTrue(5, 1) at index 3 has been taken
C8_Witness ==
    /\ last_event.kind = "dispatch"
    /\ last_event.op = "GotoIfTrue"
    /\ last_event.ic = 3
    /\ result = <<>>
    /\ context # <<>>
    /\ context[1].instruction_counter = 5
    /\ context[1].variables[1] = BoolV(TRUE)

C10_TypedAssignment ==
    [][(/\ AtInstruction
        /\ Ctx.expecting_return_value = <<>>
        /\ Instr.op \in {"Set", "SetI"}
        /\ Instr.a \in DOMAIN Ctx.variables
        /\ Instr.op = "Set" => Instr.b \in DOMAIN Ctx.variables)
       => LET source == IF Instr.op = "Set" THEN Ctx.variables[Instr.b] ELSE Instr.imm
              slot == Ctx.variables[Instr.a]
          IN  IF get_type(source) # get_type(slot)
              THEN /\ result' = <<"Err", "AttemptAssignedDifferentTypes",
                                  get_type(slot), get_type(source)>>
                   /\ context' = context
              ELSE /\ result' = <<>>
                   /\ context' = <<[Ctx EXCEPT
                          !.variables = [Ctx.variables EXCEPT ![Instr.a] = source],
                          !.instruction_counter = Ctx.instruction_counter + 1]>>
      ]_vars

\* SetI(v:Bool, U64(1)) has failed with AttemptAssignedDifferentTypes(Bool, U64)
C10_Witness ==
    /\ result = <<"Err", "AttemptAssignedDifferentTypes", Bool, U64>>
    /\ last_event.op = "SetI"
    /\ context[1].variables[1] = BoolV(FALSE)

\* C11: return-kind mismatch.  CallFunction(fid, dst) on a function without a
\* return type returns ExpectingReturnCallToVoidFunction(fid),
\* CallVoidFunction(fid) on a function with one returns
\* VoidCallToNonVoidFunction(fid), and a call of an id the program does not
\* have returns FunctionDoesNotExist(fid); the failing call makes no frame and
\* prints nothing.
C11_ReturnKindMismatch ==
    [][(/\ AtInstruction
        /\ Ctx.expecting_return_value = <<>>
        /\ Instr.op \in {"CallFunction", "CallVoidFunction"}
        /\ \/ Instr.a \notin DOMAIN program.functions
           \/ (Instr.op = "CallFunction") = (program.functions[Instr.a].return_type = <<>>))
       => /\ result' = <<"Err",
                         IF Instr.a \notin DOMAIN program.functions
                         THEN "FunctionDoesNotExist"
                         ELSE IF Instr.op = "CallFunction"
                         THEN "ExpectingReturnCallToVoidFunction"
                         ELSE "VoidCallToNonVoidFunction",
                         Instr.a>>
          /\ Len(callstack' \o context') = Len(callstack \o context)
          /\ \A i \in 1..Len(callstack' \o context') :
                 (callstack' \o context')[i].function_id
                     = (callstack \o context)[i].function_id
          /\ output' = output
      ]_vars

\* CallVoidFunction(1) on the Bool-returning function 1 has failed with the
\* caller as the only frame
C11_Witness ==
    /\ result = <<"Err", "VoidCallToNonVoidFunction", 1>>
    /\ last_event.op = "CallVoidFunction"
    /\ context = <<>>
    /\ Len(callstack) = 1
    /\ callstack[1].function_id = 0

\* C12: reserved opcodes.  Executing Mul, Div, MulI, DivI, GreaterThan[I],
\* LessThanOrEqual[I], GreaterThanOrEqual[I], Or, And, Xor, Not, SetArrayIIndex
\* or GetArrayIndexI makes execute return a NotImplemented error value and
\* changes no slot.
C12_ReservedOpcodes ==
    [][(/\ AtInstruction
        /\ Ctx.expecting_return_value = <<>>
        /\ Instr.op \in TodoOps \ {"RemI"})
       => /\ Len(result') >= 2
          /\ result'[1] = "Err"
          /\ result'[2] = "NotImplemented"
          /\ context' # <<>>
          /\ context'[1].variables = Ctx.variables
      ]_vars

\* C13: rem-by-zero.  Rem(lhs, rhs) and RemI(lhs, imm) on two unsigned values
\* of one type: a zero right operand yields OperatorDivideByZero and leaves
\* slot lhs unchanged; a non-zero one stores slots[lhs] mod right in slot lhs
\* (checked in full for the one-limb types, and as a value below the right
\* operand, equal to the left one when that is the smaller, for the others).
C13_RemByZero ==
    [][(/\ AtInstruction
        /\ Ctx.expecting_return_value = <<>>
        /\ Instr.op \in {"Rem", "RemI"}
        /\ Instr.a \in DOMAIN Ctx.variables
        /\ Instr.op = "Rem" => Instr.b \in DOMAIN Ctx.variables
        /\ LET right == IF Instr.op = "Rem" THEN Ctx.variables[Instr.b] ELSE Instr.imm
           IN  is_number(right) /\ right.t = Ctx.variables[Instr.a].t)
       => LET left == Ctx.variables[Instr.a]
              right == IF Instr.op = "Rem" THEN Ctx.variables[Instr.b] ELSE Instr.imm
          IN  /\ context' # <<>>
              /\ IF IsZeroLimbs(right.v)
                 THEN /\ result' = <<"Err", "OperatorDivideByZero">>
                      /\ context'[1].variables[Instr.a] = left
                 ELSE LET rem == context'[1].variables[Instr.a]
                      IN  /\ result' = <<>>
                          /\ rem.t = left.t
                          /\ LessLimbs(rem.v, right.v)
                          /\ LessLimbs(left.v, right.v) => rem = left
                          /\ Len(left.v) = 1 => rem.v = <<left.v[1] % right.v[1]>>
      ]_vars

\* The bytes of an unsigned value, least significant first, and the sum of
\* two values modulo 2^width told byte by byte: the carry into byte i is one
\* exactly when some lower byte pair j overflows (a_j + b_j >= 256) and every
\* pair between j and i passes a carry on (a_k + b_k >= 255).
ByteCount(value) == IF value.t = U8 THEN 1 ELSE 2 * Len(value.v)

ByteOf(value, i) ==
    IF value.t = U8 THEN value.v[1]
    ELSE (value.v[(i \div 2) + 1] \div (IF i % 2 = 0 THEN 1 ELSE 256)) % 256

CarryInto(a, b, i) ==
    IF \E j \in 0..(i - 1) :
           /\ ByteOf(a, j) + ByteOf(b, j) >= 256
           /\ \A k \in (j + 1)..(i - 1) : ByteOf(a, k) + ByteOf(b, k) >= 255
    THEN 1 ELSE 0

\* sum = (a + b) mod 2^width, the three of one unsigned type
IsSumModWidth(sum, a, b) ==
    /\ sum.t = a.t
    /\ Len(sum.v) = Len(a.v)
    /\ \A i \in 1..Len(sum.v) : sum.v[i] \in 0..(LimbBase(a.t) - 1)
    /\ \A i \in 0..(ByteCount(a) - 1) :
           ByteOf(sum, i) = (ByteOf(a, i) + ByteOf(b, i) + CarryInto(a, b, i)) % 256

\* C14: wrapping arithmetic.  Add, AddI, Sub and SubI on two values a, b of
\* one unsigned type of width w never fail and leave in slot lhs a value of
\* that type: (a + b) mod 2^w for Add and AddI, and for Sub and SubI
\* (a - b) mod 2^w, the one value d with (d + b) mod 2^w = a.
C14_WrappingArithmetic ==
    [][(/\ AtInstruction
        /\ Ctx.expecting_return_value = <<>>
        /\ Instr.op \in {"Add", "AddI", "Sub", "SubI"}
        /\ Instr.a \in DOMAIN Ctx.variables
        /\ Instr.op \in {"Add", "Sub"} => Instr.b \in DOMAIN Ctx.variables
        /\ LET right == IF Instr.op \in {"Add", "Sub"} THEN Ctx.variables[Instr.b]
                        ELSE Instr.imm
           IN  is_number(right) /\ right.t = Ctx.variables[Instr.a].t)
       => LET a == Ctx.variables[Instr.a]
              b == IF Instr.op \in {"Add", "Sub"} THEN Ctx.variables[Instr.b]
                   ELSE Instr.imm
          IN  /\ result' = <<>>
              /\ context' # <<>>
              /\ LET new_value == context'[1].variables[Instr.a]
                 IN  IF Instr.op \in {"Add", "AddI"}
                     THEN IsSumModWidth(new_value, a, b)
                     ELSE IsSumModWidth(a, new_value, b)
              /\ \A id \in DOMAIN Ctx.variables \ {Instr.a} :
                     context'[1].variables[id] = Ctx.variables[id]
      ]_vars

\* Sub(U32 0, U32 1) has left U32 0xFFFFFFFF in slot 0
C14_Witness ==
    /\ last_event.kind = "dispatch"
    /\ last_event.op = "Sub"
    /\ result = <<>>
    /\ context # <<>>
    /\ context[1].variables[1] = [t |-> U32, v |-> <<1, 0>>]
    /\ context[1].variables[0] = [t |-> U32, v |-> <<65535, 65535>>]
    /\ program.functions[0].instructions[1] = SetI(0, [t |-> U32, v |-> <<0, 0>>])

\* C15: array length.  CallNativeMethod(recv, dst, 1) on an array, with a U64
\* slot dst: when the step has completed, slot dst holds U64(n), n the number
\* of elements of the array; the array is unchanged, the return register is
\* not written and the frame awaits no return value.
C15_ArrayLength ==
    [][(/\ AtInstruction
        /\ Ctx.expecting_return_value = <<>>
        /\ Instr.op = "CallNativeMethod"
        /\ Instr.c = 1
        /\ Instr.a \in DOMAIN Ctx.variables
        /\ Instr.b \in DOMAIN Ctx.variables
        /\ is_array(Ctx.variables[Instr.a])
        /\ get_type(Ctx.variables[Instr.b]) = U64)
       => /\ result' = <<>>
          /\ context' # <<>>
          /\ context'[1].variables[Instr.b] = Num(U64, Len(Ctx.variables[Instr.a].v))
          /\ context'[1].variables[Instr.a] = Ctx.variables[Instr.a]
          /\ return_value_storage' = return_value_storage
          /\ context'[1].expecting_return_value = <<>>
      ]_vars

\* C16: array push.  CallNativeVoidMethod(recv, 0) with a value v on the
\* parameter stack: if slot recv is an array of v's type, v is popped and
\* appended as the last element; if it is an array of another element type
\* the step fails with ArrayTypeIncompatibleWithPushValue, if it is no array
\* with ArrayOperationOnNonArrayValue, and slot recv is unchanged.
C16_ArrayPush ==
    [][(/\ AtInstruction
        /\ Ctx.expecting_return_value = <<>>
        /\ Instr.op = "CallNativeVoidMethod"
        /\ Instr.b = 0
        /\ Instr.a \in DOMAIN Ctx.variables
        /\ Ctx.function_parameter_stack # <<>>)
       => LET queue == Ctx.function_parameter_stack
              v == queue[Len(queue)]
              recv == Ctx.variables[Instr.a]
          IN  /\ context' # <<>>
              /\ IF is_array(recv) /\ array_type(recv) = get_type(v)
                 THEN /\ result' = <<>>
                      /\ context'[1].variables[Instr.a] =
                             [recv EXCEPT !.v = Append(recv.v, v)]
                      /\ context'[1].function_parameter_stack =
                             SubSeq(queue, 1, Len(queue) - 1)
                 ELSE /\ Len(result') >= 2
                      /\ result'[1] = "Err"
                      /\ result'[2] = IF is_array(recv)
                                      THEN "ArrayTypeIncompatibleWithPushValue"
                                      ELSE "ArrayOperationOnNonArrayValue"
                      /\ context'[1].variables[Instr.a] = recv
      ]_vars

\* C17: print argument discipline.  CallVoidNativeFunction(0) with exactly one
\* value on the parameter stack pops it, prints it once and leaves the stack
\* empty; with an empty stack or more than one value execute returns
\* FunctionCallParametersInvalid and prints nothing.
C17_PrintDiscipline ==
    [][(/\ AtInstruction
        /\ Ctx.expecting_return_value = <<>>
        /\ Instr.op = "CallVoidNativeFunction"
        /\ Instr.a = 0)
       => LET queue == Ctx.function_parameter_stack
          IN  IF Len(queue) = 1
              THEN /\ result' = <<>>
                   /\ output' = Append(output, queue[1])
                   /\ context' # <<>>
                   /\ context'[1].function_parameter_stack = <<>>
              ELSE /\ Len(result') >= 2
                   /\ result'[1] = "Err"
                   /\ result'[2] = "FunctionCallParametersInvalid"
                   /\ output' = output
      ]_vars

\* C18: print ordering.  The output grows only by a print call that succeeds,
\* and then by the value that call pops, at its end: the values printed are
\* the values popped by the print calls in the order the calls are
\* dispatched, in whichever frames they are.
C18_PrintOrdering ==
    [][IF /\ AtInstruction
          /\ Ctx.expecting_return_value = <<>>
          /\ Instr.op = "CallVoidNativeFunction"
          /\ result' = <<>>
       THEN /\ Ctx.function_parameter_stack # <<>>
            /\ output' = Append(output,
                   Ctx.function_parameter_stack[Len(Ctx.function_parameter_stack)])
       ELSE output' = output
      ]_vars

\* the caller has printed 5, the callee TRUE and the caller 5 again
C18_Witness ==
    /\ result = <<"Ok">>
    /\ output = <<Num(U8, 5), BoolV(TRUE), Num(U8, 5)>>

\* C19: frame termination and run completion.  An active frame whose
\* instruction_counter is at or beyond the end of its function's instructions
\* is discarded, with nothing else changed; with no active frame the top of
\* the call stack becomes the active one; and execute returns Ok exactly when
\* there is no active frame and the call stack is empty.
C19_FrameTermination ==
    [][/\ (result = <<>> /\ context # <<>> /\ Ctx.instruction_counter >= Len(Code))
          => /\ context' = <<>>
             /\ UNCHANGED <<callstack, return_value_storage, result, output>>
       /\ (result = <<>> /\ context = <<>> /\ callstack # <<>>)
          => /\ context' = <<callstack[Len(callstack)]>>
             /\ callstack' = SubSeq(callstack, 1, Len(callstack) - 1)
             /\ UNCHANGED <<return_value_storage, result, output>>
       /\ result = <<>>
          => ((result' = <<"Ok">>) <=> (context = <<>> /\ callstack = <<>>))
      ]_vars

\* a frame of function 2 has ended and the frame below it, of function 0, is
\* the active one
C19_Witness ==
    /\ last_event.kind = "end"
    /\ last_event.fid = 2
    /\ result = <<>>
    /\ context # <<>>
    /\ context[1].function_id = 0
    /\ callstack = <<>>

\* the loop of a loop program: its last instruction GotoIfTrue(start, cond),
\* before it LessThanI(cond, counter, limit)
LoopCode == program.functions[0].instructions
LoopStart == LoopCode[Len(LoopCode)].a
LoopCounter == LoopCode[Len(LoopCode) - 1].b
LoopLimit == LoopCode[Len(LoopCode) - 1].imm

\* C20: counted loop.  The program AddI(counter, 1); LessThanI(cond, counter,
\* N); GotoIfTrue(0, cond), started with counter = 0 and N >= 1 (also with a
\* body that prints and a prologue, as test_basic_loop has them): execute
\* terminates, and with Ok; when the frame ends counter = N and the body has
\* been executed exactly N times: the loop events so far are the pop of the
\* frame, the instructions before the loop and N times those of the loop, and
\* a body that prints has printed N values.
C20_CountedLoop ==
    /\ <>(result = <<"Ok">>)
    /\ [](result \in {<<>>, <<"Ok">>})
    /\ []((result = <<>> /\ context # <<>> /\ Ctx.instruction_counter >= Len(Code))
            => /\ Ctx.variables[LoopCounter] = LoopLimit
               /\ steps = 1 + LoopStart + (Len(LoopCode) - LoopStart) * to_usize(LoopLimit)
               /\ LoopStart = 1 => Len(output) = to_usize(LoopLimit))

\* the loop with N = 10 on a U64 counter has run and execute has returned Ok
C20_Witness ==
    /\ result = <<"Ok">>
    /\ LoopCode = CountedLoop(U64, MaxLimit)
    /\ last_event.kind = "finish"
    /\ last_event.ic = 3
    /\ steps = 3 * MaxLimit + 3

\* every element of an array Value is of the array's element type, and so on
\* within the elements
RECURSIVE IsPureValue(_)
IsPureValue(value) ==
    is_array(value) =>
        \A i \in 1..Len(value.v) :
            /\ get_type(value.v[i]) = array_type(value)
            /\ IsPureValue(value.v[i])

\* the Values the interpreter holds: the slots and parameter stacks of every
\* frame and the return register
HeldValues ==
    UNION {{frame.variables[id] : id \in DOMAIN frame.variables}
           \cup {frame.function_parameter_stack[i] :
                    i \in 1..Len(frame.function_parameter_stack)} :
           frame \in {(callstack \o context)[i] : i \in 1..Len(callstack \o context)}}
    \cup {return_value_storage[i] : i \in 1..Len(return_value_storage)}

\* C21: array element-type purity.  Every array the interpreter holds has only
\* elements of its element type, whatever instructions have run; and no push
\* or set_index on an ArrayValue, successful or failing, changes its type,
\* and one that changes the array has been given a value of the element type.
C21_ArrayPurity ==
    /\ [](\A value \in HeldValues : IsPureValue(value))
    /\ [][typed_array # <<>> =>
             /\ typed_array' # <<>>
             /\ ArrayValue_get_type(typed_array'[1]) = ArrayValue_get_type(typed_array[1])
             /\ typed_array' # typed_array =>
                    get_type(typed_array_result'[1].value) = get_inner_type(typed_array[1])
         ]_vars

\* SetArrayIndexI has stored U8(9) over the U8(5) pushed on the Array(U8)
C21_Witness ==
    /\ last_event.op = "SetArrayIndexI"
    /\ result = <<>>
    /\ context # <<>>
    /\ context[1].variables[3] = ArrayV(U8, <<Num(U8, 9)>>)

\* the operation a step of the array operations has applied
Applied == typed_array_result'[1]

\* the elements of self before index are those of other
SameBefore(self, other, index) ==
    \A i \in 0..(index - 1) : get_index(self, i) = get_index(other, i)

\* C22: push.  For an array of any element type, nested arrays included, a
\* push of a value of the element type succeeds, makes the array one longer,
\* makes get_index(length - 1) return the value and keeps the earlier
\* elements; a push of a value of another type fails with
\* ArrayTypeIncompatibleWithPushValue(array type, value type) and leaves the
\* array as it was.
C22_TypedArrayPush ==
    [][(typed_array # <<>> /\ Applied.op = "push") =>
          LET self == typed_array[1]
              after == typed_array'[1]
              value == Applied.value
          IN  IF get_type(value) = get_inner_type(self)
              THEN /\ Applied.result = <<"Ok">>
                   /\ len(after) = len(self) + 1
                   /\ get_index(after, len(after) - 1) = <<"Ok", value>>
                   /\ SameBefore(after, self, len(self))
              ELSE /\ Applied.result = <<"Err", "ArrayTypeIncompatibleWithPushValue",
                                         ArrayValue_get_type(self), get_type(value)>>
                   /\ after = self
      ]_vars

\* C23: set_index.  set_index(i, v) fails with ArrayIndexBeyondBounds(i) when
\* i is not below the length, fails with ArraySetValueWithIncompatibleType when
\* v is not of the element type (either error when both hold), and otherwise
\* succeeds and overwrites element i only; a failure leaves the array as it
\* was.
C23_TypedArraySetIndex ==
    [][(typed_array # <<>> /\ Applied.op = "set_index") =>
          LET self == typed_array[1]
              after == typed_array'[1]
              value == Applied.value
              index == Applied.index
              beyond == <<"Err", "ArrayIndexBeyondBounds", index>>
              incompatible == <<"Err", "ArraySetValueWithIncompatibleType",
                                ArrayValue_get_type(self), get_type(value)>>
              failures == (IF index >= len(self) THEN {beyond} ELSE {})
                          \cup (IF get_type(value) # get_inner_type(self)
                                THEN {incompatible} ELSE {})
          IN  IF failures # {}
              THEN Applied.result \in failures /\ after = self
              ELSE /\ Applied.result = <<"Ok">>
                   /\ len(after) = len(self)
                   /\ get_index(after, index) = <<"Ok", value>>
                   /\ \A i \in 0..(len(self) - 1) :
                          i # index => get_index(after, i) = get_index(self, i)
      ]_vars

\* the operands of the arithmetic or comparison instruction about to run
GuardedOps == {"Add", "Sub", "Rem", "AddI", "SubI", "RemI", "LessThan", "LessThanI"}

LeftId == IF Instr.op \in {"LessThan", "LessThanI", "Equals", "EqualsI", "NotEquals",
                           "NotEqualsI"}
          THEN Instr.b ELSE Instr.a

RightIsVariable == Instr.op \in {"Add", "Sub", "Rem", "LessThan", "Equals", "NotEquals"}

RightId == IF Instr.op \in {"Add", "Sub", "Rem"} THEN Instr.b ELSE Instr.c

LeftOperand == Ctx.variables[LeftId]

RightOperand == IF RightIsVariable THEN Ctx.variables[RightId] ELSE Instr.imm

\* the instruction about to run is one of `ops` and names variables that exist
AtOperation(ops) ==
    /\ AtInstruction
    /\ Ctx.expecting_return_value = <<>>
    /\ Instr.op \in ops
    /\ Instr.a \in DOMAIN Ctx.variables
    /\ LeftId \in DOMAIN Ctx.variables
    /\ RightIsVariable => RightId \in DOMAIN Ctx.variables

\* C24: operand guards.  An Add, Sub, Rem or LessThan step, or one of their
\* immediate forms, with an operand that is no unsigned integer ends the run
\* with the error value OperandNotNumeric; with two unsigned operands of
\* different widths, with OperandsNotSameType; in both cases no slot changes.
\* With two operands of one unsigned type a completed step leaves a value of
\* that type in slot lhs, resp. a Bool in the slot of LessThan.
C24_OperandGuards ==
    [][AtOperation(GuardedOps) =>
          /\ context' # <<>>
          /\ IF ~(is_number(LeftOperand) /\ is_number(RightOperand))
             THEN /\ result' = <<"Err", "OperandNotNumeric">>
                  /\ context'[1].variables = Ctx.variables
             ELSE IF LeftOperand.t # RightOperand.t
             THEN /\ result' = <<"Err", "OperandsNotSameType">>
                  /\ context'[1].variables = Ctx.variables
             ELSE /\ result' # <<>> => context'[1].variables = Ctx.variables
                  /\ (result' = <<>> /\ Instr.op \in {"LessThan", "LessThanI"}) =>
                         context'[1].variables[Instr.a].t = Bool
                  /\ (result' = <<>> /\ Instr.op \notin {"LessThan", "LessThanI"}) =>
                         context'[1].variables[Instr.a].t = LeftOperand.t
      ]_vars

EqualityOps == {"Equals", "EqualsI", "NotEquals", "NotEqualsI"}

\* C25: equality operators.  On two operands of one unsigned type, or two
\* Bools, an Equals step stores Bool(a = b) and a NotEquals step Bool(a # b),
\* and not_equals is the negation of equals; on operands of differing types
\* both operators return the error value OperandsNotSameType, which ends the
\* run.
C25_EqualityOperators ==
    [][AtOperation(EqualityOps) =>
          LET a == LeftOperand
              b == RightOperand
          IN  IF a.t = b.t /\ (is_number(a) \/ a.t = Bool)
              THEN /\ op_equals(a, b) = <<"Ok", BoolV(a.v = b.v)>>
                   /\ op_not_equals(a, b) = <<"Ok", BoolV(~(a.v = b.v))>>
                   /\ result' = <<>>
                   /\ context' # <<>>
                   /\ context'[1].variables[Instr.a] =
                          BoolV(IF Instr.op \in {"Equals", "EqualsI"} THEN a.v = b.v
                                ELSE a.v # b.v)
              ELSE a.t # b.t =>
                   /\ op_equals(a, b) = <<"Err", "OperandsNotSameType">>
                   /\ op_not_equals(a, b) = <<"Err", "OperandsNotSameType">>
                   /\ result' = <<"Err", "OperandsNotSameType">>
      ]_vars

\* the value the instruction about to run reads from variable `id`
Slot(id) == Ctx.variables[id]

\* C26: no aliasing.  A suspended frame never changes, whatever the active
\* frame does to the values it was given; a push or an index-set changes the
\* receiver's slot only; Set, PushFunctionParameterStack, GetArrayIndex and
\* Return hand on a value equal to their source and leave the source as it is.
C26_NoAliasing ==
    [][/\ \A i \in 1..Len(callstack) : i <= Len(callstack') => callstack'[i] = callstack[i]
       /\ (AtInstruction /\ Ctx.expecting_return_value = <<>> /\ context' # <<>>) =>
              LET after == context'[1]
              IN  /\ Instr.op \in {"CallNativeVoidMethod", "SetArrayIndex", "SetArrayIndexI"} =>
                         /\ \A id \in DOMAIN Ctx.variables \ {Instr.a} :
                                after.variables[id] = Slot(id)
                         /\ return_value_storage' = return_value_storage
                  /\ (Instr.op = "Set" /\ result' = <<>>) =>
                         /\ after.variables[Instr.a] = Slot(Instr.b)
                         /\ \A id \in DOMAIN Ctx.variables \ {Instr.a} :
                                after.variables[id] = Slot(id)
                  /\ (Instr.op = "PushFunctionParameterStack" /\ result' = <<>>) =>
                         /\ after.function_parameter_stack =
                                Append(Ctx.function_parameter_stack, Slot(Instr.a))
                         /\ after.variables = Ctx.variables
                  /\ (Instr.op = "GetArrayIndex" /\ result' = <<>>) =>
                         /\ after.variables[Instr.b] = Slot(Instr.a).v[to_usize(Slot(Instr.c)) + 1]
                         /\ \A id \in DOMAIN Ctx.variables \ {Instr.b} :
                                after.variables[id] = Slot(id)
       /\ (AtInstruction /\ Ctx.expecting_return_value = <<>> /\ Instr.op = "Return"
           /\ result' = <<>>) =>
              return_value_storage' = <<Slot(Instr.a)>>
      ]_vars

\* function 1 has stored U8(9) in the array it was given, and main, suspended,
\* still holds its own array of one U8(5)
C26_Witness ==
    /\ context # <<>>
    /\ callstack # <<>>
    /\ context[1].function_id = 1
    /\ last_event.op = "SetArrayIndexI"
    /\ context[1].variables[0] = ArrayV(U8, <<Num(U8, 9), Num(U8, 0)>>)
    /\ callstack[Len(callstack)].variables[0] = ArrayV(U8, <<Num(U8, 5)>>)

\* zero, false, the empty string, the empty array of the element type
IsZeroOf(value, t) ==
    /\ value.t = t
    /\ CASE t \in NumericTypes -> \A i \in 1..Len(value.v) : value.v[i] = 0
         [] t = Bool -> value.v = FALSE
         [] t = String -> value.v = ""
         [] OTHER -> value.v = <<>>

\* `frame` is a new frame of function `function_id`, whose first `bound`
\* variables may have been bound
IsFreshFrame(frame, function_id, bound) ==
    LET func == program.functions[function_id]
    IN  /\ frame.function_id = function_id
        /\ frame.instruction_counter = 0
        /\ frame.function_parameter_stack = <<>>
        /\ frame.expecting_return_value = <<>>
        /\ DOMAIN frame.variables = DOMAIN func.variables
        /\ \A id \in DOMAIN func.variables :
               id >= bound => IsZeroOf(frame.variables[id], func.variables[id])

\* C27: fresh frames.  The frame execute starts with, and the frame a
\* CallFunction or CallVoidFunction step makes, has counter 0, an empty
\* parameter stack, no pending return and every slot at the zero of its
\* declared type, but for the parameter slots a CallFunction has bound:
\* nothing of an earlier call of the function is in it.
C27_FreshFrames ==
    /\ [](steps = 0 =>
             /\ Len(callstack) = 1
             /\ IsFreshFrame(callstack[1], program.entry_point_id, 0))
    /\ [][(/\ AtInstruction
           /\ Ctx.expecting_return_value = <<>>
           /\ Instr.op \in {"CallFunction", "CallVoidFunction"}
           /\ result' = <<>>)
          => /\ Len(callstack') = Len(callstack) + 2
             /\ IsFreshFrame(callstack'[Len(callstack')], Instr.a,
                             IF Instr.op = "CallFunction"
                             THEN Len(program.functions[Instr.a].parameters) ELSE 0)
         ]_vars

\* main has called function 1 for the second time: the first call had added
\* 3 to its variable 1 and pushed on its parameter stack, the new frame has 0
\* there and an empty stack
C27_Witness ==
    /\ Len(callstack) = 2
    /\ last_event.kind = "call"
    /\ callstack[1].instruction_counter = 7
    /\ callstack[2].function_id = 1
    /\ callstack[2].variables[1] = Num(U8, 0)
    /\ callstack[2].function_parameter_stack = <<>>
    /\ program.functions[1].instructions[1] = AddI(1, Num(U8, 3))
    /\ callstack[1].variables[4] = Num(U8, 3)

\* C28: dispatch-step order.  The step of a frame that awaits a return value
\* and has become active again after its callee is the consumption of the
\* register, whether or not an instruction is left at its counter: with an empty register the run ends with
\* NoReturnValue; otherwise the value is assigned to the awaited slot and the
\* pending slot and the register are cleared, or the assignment's error ends
\* the run, and the counter stays where it is.
C28_DispatchOrder ==
    [][(/\ result = <<>>
        /\ context # <<>>
        /\ last_event.kind \in {"return", "end"}
        /\ Ctx.expecting_return_value # <<>>)
       => IF return_value_storage = <<>>
          THEN result' = <<"Err", "NoReturnValue">>
          ELSE /\ last_event'.kind = "consume"
               /\ result' = <<>> =>
                      /\ context' # <<>>
                      /\ context'[1].variables[Ctx.expecting_return_value[1]] =
                             return_value_storage[1]
                      /\ context'[1].expecting_return_value = <<>>
                      /\ context'[1].instruction_counter = Ctx.instruction_counter
                      /\ return_value_storage' = <<>>
      ]_vars

\* C29: call and return.  A completed CallFunction or CallVoidFunction at
\* index c suspends the caller with counter c + 1 under a new frame of the
\* called function with counter 0, and no frame is active until the outer loop
\* pops one; the frame it pops is the top of the call stack as it was
\* suspended.  A Return(v) on an existing variable stores slots[v] in the
\* register and discards the active frame at once, the call stack as it was.
C29_CallReturnTransfer ==
    [][/\ (/\ AtInstruction
           /\ Ctx.expecting_return_value = <<>>
           /\ Instr.op \in {"CallFunction", "CallVoidFunction"}
           /\ result' = <<>>)
          => /\ context' = <<>>
             /\ Len(callstack') = Len(callstack) + 2
             /\ SubSeq(callstack', 1, Len(callstack)) = callstack
             /\ LET caller == callstack'[Len(callstack') - 1]
                    callee == callstack'[Len(callstack')]
                IN  /\ caller.function_id = Ctx.function_id
                    /\ caller.instruction_counter = Ctx.instruction_counter + 1
                    /\ caller.variables = Ctx.variables
                    /\ callee.function_id = Instr.a
                    /\ callee.instruction_counter = 0
       /\ (result = <<>> /\ context = <<>> /\ context' # <<>>)
          => /\ context' = <<callstack[Len(callstack)]>>
             /\ callstack' = SubSeq(callstack, 1, Len(callstack) - 1)
       /\ (/\ AtInstruction
           /\ Ctx.expecting_return_value = <<>>
           /\ Instr.op = "Return"
           /\ Instr.a \in DOMAIN Ctx.variables)
          => /\ return_value_storage' = <<Ctx.variables[Instr.a]>>
             /\ context' = <<>>
             /\ callstack' = callstack
             /\ result' = <<>>
      ]_vars

\* function 1 has returned at index 3, before its last instruction, and main
\* is active again at the index after its CallFunction
C29_Witness ==
    /\ result = <<>>
    /\ context # <<>>
    /\ last_event.kind = "return"
    /\ last_event.fid = 1
    /\ last_event.ic = 3
    /\ Len(program.functions[1].instructions) = 5
    /\ context[1].function_id = 0
    /\ context[1].instruction_counter > 0
    /\ Code[context[1].instruction_counter].op = "CallFunction"

\* C30: GotoIfTrue on a value that is no Bool.  The step ends the run with the
\* error value GotoNonBoolean: the counter stays at the GotoIfTrue, no slot
\* changes and no later step is taken.
C30_GotoNonBoolean ==
    [][(/\ AtInstruction
        /\ Ctx.expecting_return_value = <<>>
        /\ Instr.op = "GotoIfTrue"
        /\ Instr.b \in DOMAIN Ctx.variables
        /\ Ctx.variables[Instr.b].t # Bool)
       => /\ result' = <<"Err", "GotoNonBoolean">>
          /\ context' = context
          /\ callstack' = callstack
      ]_vars

\* C31: GetArrayIndex(arr, dst, idx) on existing variables.  With an array in
\* slot arr and an unsigned integer i below its length in slot idx, the step
\* completes with a copy of element i in slot dst when that slot is of the
\* element type, and changes no other slot; with i not below the length the
\* run ends with the error value ArrayIndexBeyondBounds(i), with a value that
\* is no unsigned integer in slot idx with ValueIsNotNumeric, with a value that
\* is no array in slot arr with ArrayOperationOnNonArrayValue (any of them
\* when several apply), and no slot changes.
C31_GetArrayIndex ==
    [][(/\ AtInstruction
        /\ Ctx.expecting_return_value = <<>>
        /\ Instr.op = "GetArrayIndex"
        /\ {Instr.a, Instr.b, Instr.c} \subseteq DOMAIN Ctx.variables)
       => LET array == Ctx.variables[Instr.a]
              store == Ctx.variables[Instr.b]
              index == Ctx.variables[Instr.c]
              failures ==
                  (IF ~is_array(array)
                   THEN {<<"Err", "ArrayOperationOnNonArrayValue">>} ELSE {})
                  \cup (IF ~is_number(index)
                        THEN {<<"Err", "ValueIsNotNumeric", index>>} ELSE {})
                  \cup (IF /\ is_array(array)
                           /\ is_number(index)
                           /\ to_usize(index) >= Len(array.v)
                        THEN {<<"Err", "ArrayIndexBeyondBounds", to_usize(index)>>}
                        ELSE {})
          IN  /\ context' # <<>>
              /\ IF failures # {}
                 THEN /\ result' \in failures
                      /\ context'[1].variables = Ctx.variables
                 ELSE IF get_type(store) = array_type(array)
                 THEN /\ result' = <<>>
                      /\ context'[1].variables =
                             [Ctx.variables EXCEPT
                                 ![Instr.b] = array.v[to_usize(index) + 1]]
                 ELSE /\ result' # <<>>
                      /\ result'[1] = "Err"
                      /\ context'[1].variables = Ctx.variables
      ]_vars

\* the frame that is active or, between two frames, the one the outer loop
\* pops next
NextFrame ==
    IF context # <<>> THEN context
    ELSE IF callstack # <<>> THEN <<callstack[Len(callstack)]>>
    ELSE <<>>

\* C32: return-register hygiene.  While execute runs or after it has returned
\* Ok, a value in the return register is awaited: execute has not returned,
\* and the frame that is active, or the one popped next, has a pending return
\* slot.  So the register is empty when execute returns Ok.
C32_RegisterHygiene ==
    (result \in {<<>>, <<"Ok">>} /\ return_value_storage # <<>>) =>
        /\ result = <<>>
        /\ NextFrame # <<>>
        /\ NextFrame[1].expecting_return_value # <<>>

\* the frames from the bottom of the call stack to the active one
Frames == callstack \o context

\* the frame below `above` is suspended just after a call of above's function
SuspendedAtCallOf(frame, above) ==
    LET code == program.functions[frame.function_id].instructions
        c == frame.instruction_counter
    IN  /\ c >= 1
        /\ c <= Len(code)
        /\ code[c].op \in {"CallFunction", "CallVoidFunction"}
        /\ code[c].a = above.function_id

\* C33: call-stack discipline.  While execute runs, the bottom frame is the
\* entry function's and every frame below another is suspended at the index
\* after a CallFunction or CallVoidFunction of the function of the frame
\* above it; a completed call makes the stack one frame deeper, a Return and
\* the end of a function one frame shallower, and no step changes the slots,
\* the parameter stack or the counter of a frame that stays suspended.
C33_CallStackDiscipline ==
    /\ [](result = <<>> =>
             /\ Frames # <<>> => Frames[1].function_id = program.entry_point_id
             /\ \A i \in 1..(Len(Frames) - 1) : SuspendedAtCallOf(Frames[i], Frames[i + 1]))
    /\ [][/\ (/\ AtInstruction
              /\ Ctx.expecting_return_value = <<>>
              /\ Instr.op \in {"CallFunction", "CallVoidFunction"}
              /\ result' = <<>>)
             => Len(Frames') = Len(Frames) + 1
          /\ (/\ Running
              /\ context # <<>>
              /\ result' = <<>>
              /\ \/ Ctx.instruction_counter >= Len(Code)
                 \/ Ctx.expecting_return_value = <<>> /\ Instr.op = "Return")
             => Len(Frames') = Len(Frames) - 1
          /\ \A i \in 1..(Len(Frames) - 1) :
                 i < Len(Frames') =>
                     /\ Frames'[i].variables = Frames[i].variables
                     /\ Frames'[i].function_parameter_stack = Frames[i].function_parameter_stack
                     /\ Frames'[i].instruction_counter = Frames[i].instruction_counter
         ]_vars

\* three frames deep: main has called function 2, which has called function
\* 1, which has run an instruction
C33_Witness ==
    /\ result = <<>>
    /\ Len(callstack) = 2
    /\ context # <<>>
    /\ callstack[1].function_id = 0
    /\ callstack[2].function_id = 2
    /\ context[1].function_id = 1
    /\ last_event.kind = "dispatch"
    /\ last_event.fid = 1

====
